---- MODULE Spec2Model ----
(***************************************************************************)
(* A model of BankTransactionParser (python_parser.py): the classifier,    *)
(* the five extraction routines and the number normalizer, at the level of *)
(* characters.                                                             *)
(*                                                                         *)
(* A text is a sequence of characters; a character is a one-element TLA+   *)
(* string.  The module is ASCII, so a Cyrillic letter is written by its    *)
(* transliterated name: "cy:b" is the small letter BE, "CY:B" the capital. *)
(* The regular expressions of the source are modelled by matchers over     *)
(* these sequences: leftmost match, greedy or lazy repetition and          *)
(* backtracking as Python's re module does them.                           *)
(***************************************************************************)
EXTENDS Integers, Sequences, FiniteSets, TLC

----------------------------------------------------------------------------
(* Characters *)

\* \d of the regular expressions
Digits == {"0", "1", "2", "3", "4", "5", "6", "7", "8", "9"}

DigitVal ==
  [c \in Digits |->
     CASE c = "0" -> 0 [] c = "1" -> 1 [] c = "2" -> 2 [] c = "3" -> 3
       [] c = "4" -> 4 [] c = "5" -> 5 [] c = "6" -> 6 [] c = "7" -> 7
       [] c = "8" -> 8 [] c = "9" -> 9]

\* \s of the regular expressions, and what str.strip() and float() strip
Whitespace == {" ", "\n", "\t"}

\* the letters str.lower() / str.upper() / re.IGNORECASE map, in pairs
UpperChars ==
  << "A", "B", "C", "D", "E", "F", "G", "H", "I", "J", "K", "L", "M",
     "N", "O", "P", "Q", "R", "S", "T", "U", "V", "W", "X", "Y", "Z",
     "CY:A", "CY:B", "CY:V", "CY:G", "CY:D", "CY:E", "CY:ZH", "CY:Z", "CY:I", "CY:J", "CY:K", "CY:L", "CY:M",
     "CY:N", "CY:O", "CY:P", "CY:R", "CY:S", "CY:T", "CY:U", "CY:F", "CY:H", "CY:C", "CY:CH", "CY:SH", "CY:SCH",
     "CY:HS", "CY:YY", "CY:SS", "CY:EE", "CY:YU", "CY:YA", "CY:YE", "CY:II", "CY:YI", "CY:GG", "CY:YO" >>

LowerChars ==
  << "a", "b", "c", "d", "e", "f", "g", "h", "i", "j", "k", "l", "m",
     "n", "o", "p", "q", "r", "s", "t", "u", "v", "w", "x", "y", "z",
     "cy:a", "cy:b", "cy:v", "cy:g", "cy:d", "cy:e", "cy:zh", "cy:z", "cy:i", "cy:j", "cy:k", "cy:l", "cy:m",
     "cy:n", "cy:o", "cy:p", "cy:r", "cy:s", "cy:t", "cy:u", "cy:f", "cy:h", "cy:c", "cy:ch", "cy:sh", "cy:sch",
     "cy:hs", "cy:yy", "cy:ss", "cy:ee", "cy:yu", "cy:ya", "cy:ye", "cy:ii", "cy:yi", "cy:gg", "cy:yo" >>

LowerMap ==
  [c \in {UpperChars[i] : i \in DOMAIN UpperChars} |->
     LowerChars[CHOOSE i \in DOMAIN UpperChars : UpperChars[i] = c]]

UpperMap ==
  [c \in {LowerChars[i] : i \in DOMAIN LowerChars} |->
     UpperChars[CHOOSE i \in DOMAIN LowerChars : LowerChars[i] = c]]

\* [A-Z] under re.IGNORECASE
LatinLetters == {UpperChars[i] : i \in 1..26} \cup {LowerChars[i] : i \in 1..26}

----------------------------------------------------------------------------
(* The pattern and keyword tables of the source *)

\* self.currency_pattern: (UAH|USD|EUR|GBP|PLN)
currency_pattern ==
  << <<"U", "A", "H">>,
     <<"U", "S", "D">>,
     <<"E", "U", "R">>,
     <<"G", "B", "P">>,
     <<"P", "L", "N">> >>

\* self.amount_pattern, (\d+(?:\s+\d+)*(?:[.,]\d+)?|\d+): the characters a match is made of
amount_pattern == [digits |-> Digits, groupSep |-> Whitespace, decimalSep |-> {".", ","}]

\* _is_balance_info_only: operation_keywords
operation_keywords ==
  << <<"cy:p", "cy:e", "cy:r", "cy:e", "cy:k", "cy:a", "cy:z">>,
     <<"p", "e", "r", "e", "k", "a", "z">>,
     <<"t", "r", "a", "n", "s", "f", "e", "r">>,
     <<"b", "l", "o", "k", "u", "v", "a", "n", "n", "i", "a">>,
     <<"cy:b", "cy:l", "cy:o", "cy:k", "cy:u", "cy:v", "cy:a", "cy:n", "cy:n", "cy:ya">>,
     <<"b", "l", "o", "c", "k", "i", "n", "g">>,
     <<"cy:s", "cy:u", "cy:m", "cy:a">>,
     <<"s", "u", "m", "a">>,
     <<"a", "m", "o", "u", "n", "t">>,
     <<"cy:s", "cy:u", "cy:m", "cy:m", "cy:a">>,
     <<"cy:n", "cy:a", "cy:d", "cy:h", "cy:o", "cy:d", "cy:zh", "cy:e", "cy:n", "cy:n", "cy:ya">>,
     <<"i", "n", "c", "o", "m", "i", "n", "g">>,
     <<"cy:z", "cy:n", "cy:ya", "cy:t", "cy:t", "cy:ya">>,
     <<"cy:s", "cy:n", "cy:ya", "cy:t", "cy:i", "cy:e">>,
     <<"w", "i", "t", "h", "d", "r", "a", "w", "a", "l">>,
     <<"cy:p", "cy:l", "cy:a", "cy:t", "cy:ii", "cy:zh">>,
     <<"cy:p", "cy:l", "cy:a", "cy:t", "cy:e", "cy:zh">>,
     <<"p", "a", "y", "m", "e", "n", "t">> >>

\* _is_incoming: incoming_keywords
incoming_keywords ==
  << <<"p", "e", "r", "e", "k", "a", "z", ":">>,
     <<"p", "e", "r", "e", "k", "a", "z">>,
     <<"cy:n", "cy:a", "cy:d", "cy:h", "cy:o", "cy:d", "cy:zh", "cy:e", "cy:n", "cy:n", "cy:ya">>,
     <<"cy:p", "cy:o", "cy:s", "cy:t", "cy:u", "cy:p", "cy:l", "cy:e", "cy:n", "cy:i", "cy:e">>,
     <<"i", "n", "c", "o", "m", "i", "n", "g">>,
     <<"cy:p", "cy:o", "cy:p", "cy:o", "cy:l", "cy:n", "cy:e", "cy:n", "cy:i", "cy:e">>,
     <<"cy:p", "cy:o", "cy:p", "cy:o", "cy:v", "cy:n", "cy:e", "cy:n", "cy:n", "cy:ya">>,
     <<"r", "e", "p", "l", "e", "n", "i", "s", "h", "m", "e", "n", "t">>,
     <<"d", "e", "p", "o", "s", "i", "t">>,
     <<"cy:d", "cy:e", "cy:p", "cy:o", "cy:z", "cy:i", "cy:t">> >>

\* _is_blocking: blocking_keywords
blocking_keywords ==
  << <<"b", "l", "o", "k", "u", "v", "a", "n", "n", "i", "a", ":">>,
     <<"b", "l", "o", "k", "u", "v", "a", "n", "n", "y", "a">>,
     <<"cy:b", "cy:l", "cy:o", "cy:k", "cy:u", "cy:v", "cy:a", "cy:n", "cy:n", "cy:ya">>,
     <<"cy:b", "cy:l", "cy:o", "cy:k", "cy:i", "cy:r", "cy:o", "cy:v", "cy:k", "cy:a">>,
     <<"cy:b", "cy:l", "cy:o", "cy:k", "cy:i", "cy:r", "cy:o", "cy:v", "cy:a", "cy:n", "cy:i", "cy:e">>,
     <<"b", "l", "o", "c", "k", "i", "n", "g">>,
     <<"b", "l", "o", "c", "k">>,
     <<"r", "e", "j", "e", "c", "t">>,
     <<"cy:v", "cy:ii", "cy:d", "cy:h", "cy:i", "cy:l", "cy:e", "cy:n", "cy:n", "cy:ya">>,
     <<"cy:o", "cy:t", "cy:k", "cy:l", "cy:o", "cy:n", "cy:e", "cy:n", "cy:i", "cy:e">> >>

\* _is_outgoing: outgoing_keywords
outgoing_keywords ==
  << <<"cy:p", "cy:e", "cy:r", "cy:e", "cy:k", "cy:a", "cy:z", " ", "cy:z", " ", "cy:k", "cy:a", "cy:r", "cy:t", "cy:k", "cy:i", " ", "cy:n", "cy:a", " ", "cy:k", "cy:a", "cy:r", "cy:t", "cy:k", "cy:u">>,
     <<"cy:p", "cy:e", "cy:r", "cy:e", "cy:k", "cy:a", "cy:z", " ", "cy:z", " ", "cy:k", "cy:a", "cy:r", "cy:t", "cy:yy", " ", "cy:n", "cy:a", " ", "cy:k", "cy:a", "cy:r", "cy:t", "cy:u">>,
     <<"t", "r", "a", "n", "s", "f", "e", "r", " ", "f", "r", "o", "m", " ", "c", "a", "r", "d", " ", "t", "o", " ", "c", "a", "r", "d">>,
     <<"cy:z", "cy:n", "cy:ya", "cy:t", "cy:t", "cy:ya">>,
     <<"cy:s", "cy:n", "cy:ya", "cy:t", "cy:i", "cy:e">>,
     <<"w", "i", "t", "h", "d", "r", "a", "w", "a", "l">>,
     <<"cy:v", "cy:i", "cy:v", "cy:e", "cy:d", "cy:e", "cy:n", "cy:n", "cy:ya">>,
     <<"cy:v", "cy:yy", "cy:v", "cy:o", "cy:d">>,
     <<"o", "u", "t", "g", "o", "i", "n", "g">>,
     <<"o", "u", "t">>,
     <<"cy:s", "cy:p", "cy:i", "cy:s", "cy:a", "cy:n", "cy:n", "cy:ya">>,
     <<"cy:s", "cy:p", "cy:i", "cy:s", "cy:a", "cy:n", "cy:i", "cy:e">>,
     <<"d", "e", "b", "i", "t">>,
     <<"cy:p", "cy:l", "cy:a", "cy:t", "cy:ii", "cy:zh">>,
     <<"cy:p", "cy:l", "cy:a", "cy:t", "cy:e", "cy:zh">>,
     <<"p", "a", "y", "m", "e", "n", "t">>,
     <<"cy:o", "cy:p", "cy:l", "cy:a", "cy:t", "cy:a">>,
     <<"cy:o", "cy:p", "cy:l", "cy:a", "cy:t", "cy:a">> >>

\* 'баланс:' (balance marker with colon)
KwBalansColon == <<"cy:b", "cy:a", "cy:l", "cy:a", "cy:n", "cy:s", ":">>

\* 'баланс' (balance marker)
KwBalans == <<"cy:b", "cy:a", "cy:l", "cy:a", "cy:n", "cy:s">>

\* 'переказ' (transfer, Cyrillic)
KwPerekazCyr == <<"cy:p", "cy:e", "cy:r", "cy:e", "cy:k", "cy:a", "cy:z">>

\* 'perekaz:'
KwPerekazColon == <<"p", "e", "r", "e", "k", "a", "z", ":">>

\* 'картка:' (card)
KwKartkaColon == <<"cy:k", "cy:a", "cy:r", "cy:t", "cy:k", "cy:a", ":">>

\* 'доступно:' (available, with colon)
KwDostupnoColon == <<"cy:d", "cy:o", "cy:s", "cy:t", "cy:u", "cy:p", "cy:n", "cy:o", ":">>

\* 'доступно' (available)
KwDostupnoCyr == <<"cy:d", "cy:o", "cy:s", "cy:t", "cy:u", "cy:p", "cy:n", "cy:o">>

\* 'надходження' (incoming)
KwNadkhodzhennia == <<"cy:n", "cy:a", "cy:d", "cy:h", "cy:o", "cy:d", "cy:zh", "cy:e", "cy:n", "cy:n", "cy:ya">>

\* 'надходження:'
KwNadkhodzhenniaColon == <<"cy:n", "cy:a", "cy:d", "cy:h", "cy:o", "cy:d", "cy:zh", "cy:e", "cy:n", "cy:n", "cy:ya", ":">>

\* 'na sumu'
KwNaSumu == <<"n", "a", " ", "s", "u", "m", "u">>

\* 'dostupno'
KwDostupno == <<"d", "o", "s", "t", "u", "p", "n", "o">>

\* 'na kartku'
KwNaKartku == <<"n", "a", " ", "k", "a", "r", "t", "k", "u">>

\* _parse_blocking: (?:suma|сума|amount|сумма)
SumaWords ==
  << <<"s", "u", "m", "a">>,
     <<"cy:s", "cy:u", "cy:m", "cy:a">>,
     <<"a", "m", "o", "u", "n", "t">>,
     <<"cy:s", "cy:u", "cy:m", "cy:m", "cy:a">> >>

\* _parse_blocking: (?:dostupno|доступно|available)
AvailableWords ==
  << <<"d", "o", "s", "t", "u", "p", "n", "o">>,
     <<"cy:d", "cy:o", "cy:s", "cy:t", "cy:u", "cy:p", "cy:n", "cy:o">>,
     <<"a", "v", "a", "i", "l", "a", "b", "l", "e">> >>

\* _parse_blocking: (?:баланс|balance):
BalanceColonWords ==
  << <<"cy:b", "cy:a", "cy:l", "cy:a", "cy:n", "cy:s", ":">>,
     <<"b", "a", "l", "a", "n", "c", "e", ":">> >>

\* _parse_blocking: (?:kartka|картка|card|карта)
CardWords ==
  << <<"k", "a", "r", "t", "k", "a">>,
     <<"cy:k", "cy:a", "cy:r", "cy:t", "cy:k", "cy:a">>,
     <<"c", "a", "r", "d">>,
     <<"cy:k", "cy:a", "cy:r", "cy:t", "cy:a">> >>

\* _parse_blocking: (?:blokuvannia|блокування|blocking|reject):
BlockingCounterpartyWords ==
  << <<"b", "l", "o", "k", "u", "v", "a", "n", "n", "i", "a", ":">>,
     <<"cy:b", "cy:l", "cy:o", "cy:k", "cy:u", "cy:v", "cy:a", "cy:n", "cy:n", "cy:ya", ":">>,
     <<"b", "l", "o", "c", "k", "i", "n", "g", ":">>,
     <<"r", "e", "j", "e", "c", "t", ":">> >>

\* _parse_blocking: the keywords of the second counterparty pattern
BlockingFallbackKeywords ==
  << <<"b", "l", "o", "k", "u", "v", "a", "n", "n", "i", "a">>,
     <<"cy:b", "cy:l", "cy:o", "cy:k", "cy:u", "cy:v", "cy:a", "cy:n", "cy:n", "cy:ya">>,
     <<"b", "l", "o", "c", "k", "i", "n", "g">>,
     <<"r", "e", "j", "e", "c", "t">> >>

\* _parse_blocking: (?:kartka|картка|card), the card keyword ending a counterparty
CounterpartyStopWords ==
  << <<"k", "a", "r", "t", "k", "a">>,
     <<"cy:k", "cy:a", "cy:r", "cy:t", "cy:k", "cy:a">>,
     <<"c", "a", "r", "d">> >>

\* _parse_outgoing: (?:доступно|available), in the title
TitleAvailableWords ==
  << <<"cy:d", "cy:o", "cy:s", "cy:t", "cy:u", "cy:p", "cy:n", "cy:o">>,
     <<"a", "v", "a", "i", "l", "a", "b", "l", "e">> >>

\* _parse_outgoing: (?:доступно|available|баланс|balance)
OutBalanceWords ==
  << <<"cy:d", "cy:o", "cy:s", "cy:t", "cy:u", "cy:p", "cy:n", "cy:o">>,
     <<"a", "v", "a", "i", "l", "a", "b", "l", "e">>,
     <<"cy:b", "cy:a", "cy:l", "cy:a", "cy:n", "cy:s">>,
     <<"b", "a", "l", "a", "n", "c", "e">> >>

\* _parse_outgoing: (?:картка|card|карта)
OutCardWords ==
  << <<"cy:k", "cy:a", "cy:r", "cy:t", "cy:k", "cy:a">>,
     <<"c", "a", "r", "d">>,
     <<"cy:k", "cy:a", "cy:r", "cy:t", "cy:a">> >>

\* _parse_incoming: the excluded placeholder counterparties
Placeholders ==
  << <<"E", "X", "A", "M", "P", "L", "E", ".", "C", "O", "M">>,
     <<"E", "X", "A", "M", "P", "L", "E">> >>

----------------------------------------------------------------------------
(* Strings *)

\* str.lower() and str.upper(), one character
MapChar(map, c) == IF c \in DOMAIN map THEN map[c] ELSE c

Lower(c) == MapChar(LowerMap, c)

Upper(c) == MapChar(UpperMap, c)

LowerStr(s) == [i \in 1..Len(s) |-> Lower(s[i])]

UpperStr(s) == [i \in 1..Len(s) |-> Upper(s[i])]

\* w in s
Contains(s, w) == \E i \in 1..(Len(s) - Len(w) + 1) : SubSeq(s, i, i + Len(w) - 1) = w

\* s[i:].startswith(w), i counted from 1
StartsAt(s, i, w) == i + Len(w) - 1 <= Len(s) /\ SubSeq(s, i, i + Len(w) - 1) = w

\* any(keyword in s for keyword in table)
ContainsAny(s, table) == \E k \in DOMAIN table : Contains(s, table[k])

\* the first index from p on whose character is not in class C (Len(s) + 1 when there is none)
RECURSIVE SkipWhile(_, _, _)
SkipWhile(s, p, C) ==
  IF p > Len(s) \/ s[p] \notin C THEN p ELSE SkipWhile(s, p + 1, C)

\* the last index up to p whose character is not in class C (0 when there is none)
RECURSIVE SkipBack(_, _, _)
SkipBack(s, p, C) ==
  IF p < 1 \/ s[p] \notin C THEN p ELSE SkipBack(s, p - 1, C)

\* the first index from p on whose character is in class C (Len(s) + 1 when there is none)
RECURSIVE FindIn(_, _, _)
FindIn(s, p, C) ==
  IF p > Len(s) \/ s[p] \in C THEN p ELSE FindIn(s, p + 1, C)

\* str.strip()
Strip(s) ==
  LET a == SkipWhile(s, 1, Whitespace)
      b == SkipBack(s, Len(s), Whitespace)
  IN  IF a > b THEN << >> ELSE SubSeq(s, a, b)

\* str.replace(c, '')
Remove(s, c) == SelectSeq(s, LAMBDA x : x # c)

\* str.replace(c, d)
Replace(s, c, d) == [i \in 1..Len(s) |-> IF s[i] = c THEN d ELSE s[i]]

\* str.split('\n')
RECURSIVE SplitLines(_)
SplitLines(s) ==
  LET nl == FindIn(s, 1, {"\n"})
  IN  IF nl > Len(s) THEN << s >>
      ELSE << SubSeq(s, 1, nl - 1) >> \o SplitLines(SubSeq(s, nl + 1, Len(s)))

----------------------------------------------------------------------------
(* Values *)

\* Python's None, and a present value
None == << >>

Some(v) == << v >>

\* A float is modelled by the decimal it was read from: mant / 10^scale, with
\* no trailing zero in the fraction, so that 1250.50 and 1250.5 are equal.
\* (Tokens stay far below the 15 significant digits at which two decimals
\* may share a double.)
RECURSIVE Decimal(_, _)
Decimal(mant, scale) ==
  IF scale > 0 /\ mant % 10 = 0 THEN Decimal(mant \div 10, scale - 1)
  ELSE [mant |-> mant, scale |-> scale]

\* the number a string of decimal digits denotes
RECURSIVE DigitsValue(_)
DigitsValue(ds) ==
  IF ds = << >> THEN 0
  ELSE 10 * DigitsValue(SubSeq(ds, 1, Len(ds) - 1)) + DigitVal[ds[Len(ds)]]

\* float(s), for s made of digits, '.', whitespace and characters float()
\* rejects: surrounding whitespace is stripped, then digits with at most one
\* '.' and at least one digit are read; anything else is a ValueError.
\* (No sign, exponent, underscore, inf or nan: no token the parser passes
\* holds one.)
AllDigits(x) == \A i \in 1..Len(x) : x[i] \in Digits

\* the float of the literal made of the integer part int and the fraction frac
FloatOfParts(int, frac) ==
  IF AllDigits(int) /\ AllDigits(frac) /\ Len(int) + Len(frac) > 0
  THEN [ok |-> TRUE, value |-> Decimal(DigitsValue(int \o frac), Len(frac))]
  ELSE [ok |-> FALSE, value |-> Decimal(0, 0)]

\* the float of the literal t whose first '.' is at dot (Len(t) + 1: none)
FloatOfLiteral(t, dot) ==
  FloatOfParts(SubSeq(t, 1, dot - 1), SubSeq(t, dot + 1, Len(t)))

float(s) ==
  LET literal(t) == FloatOfLiteral(t, FindIn(t, 1, {"."}))
  IN  literal(Strip(s))

\* _normalize_number reading ',' as a thousands separator: the variant that
\* C6 tells apart from the code
_normalize_number_comma_thousands(number_str) ==
  float(Remove(Remove(number_str, " "), ","))

\* _normalize_number without the replacement of ',': the variant that C8
\* tells apart from the code
_normalize_number_no_comma(number_str) ==
  float(Remove(number_str, " "))

\* _normalize_number
_normalize_number(number_str) ==
  LET normalized == Replace(Remove(number_str, " "), ",", ".")
  IN  float(normalized)

----------------------------------------------------------------------------
(* Regular expressions *)

(***************************************************************************)
(* A match: start is the index of its first character, end the index after *)
(* its last one (Python's m.start() + 1 and m.end() + 1), g1s..g1e and     *)
(* g2s..g2e the characters of group(1) and group(2).                       *)
(***************************************************************************)
NoMatch ==
  [ok |-> FALSE, start |-> 0, end |-> 0, g1s |-> 0, g1e |-> 0, g2s |-> 0, g2e |-> 0]

Match(start, end, g1s, g1e, g2s, g2e) ==
  [ok |-> TRUE, start |-> start, end |-> end,
   g1s |-> g1s, g1e |-> g1e, g2s |-> g2s, g2e |-> g2e]

\* the least element of a non-empty set of integers
Least(S) == CHOOSE x \in S : \A y \in S : x <= y

\* "if not m: m = alt": the match m, or alt when there is none
OrElse(m, alt) == IF m.ok THEN m ELSE alt

\* the alternatives of (?:w1|w2|...) are tried in order: the first of the
\* matches tries[1], tries[2], ... there is
FirstOk(tries) ==
  LET hits == {i \in DOMAIN tries : tries[i].ok}
  IN  IF hits = {} THEN NoMatch ELSE tries[Least(hits)]

Group1(s, m) == SubSeq(s, m.g1s, m.g1e)

Group2(s, m) == SubSeq(s, m.g2s, m.g2e)

\* the characters a match of amount_pattern is made of
AmountChars(self) ==
  self.amount_pattern.digits \cup self.amount_pattern.groupSep \cup self.amount_pattern.decimalSep

\* [*0-9]
CardChars == Digits \cup {"*"}

\* [A-Z0-9] under re.IGNORECASE
AlnumChars == LatinLetters \cup Digits

\* currency_pattern under re.IGNORECASE matches s[q..q+2]
CurrencyAt(self, s, q) ==
  /\ q + 2 <= Len(s)
  /\ \E i \in DOMAIN self.currency_pattern :
        LowerStr(SubSeq(s, q, q + 2)) = LowerStr(self.currency_pattern[i])

\* s[p..e] is a whole match of amount_pattern: \d+(?:\s+\d+)*(?:[.,]\d+)?
\* (the alternative |\d+ matches nothing the first one does not)
AmountIs(self, s, p, e) ==
  LET seps == {k \in p..e : s[k] \in self.amount_pattern.decimalSep}
  IN  /\ p <= e
      /\ s[p] \in self.amount_pattern.digits
      /\ s[e] \in self.amount_pattern.digits
      /\ \A k \in p..e : s[k] \in AmountChars(self)
      /\ Cardinality(seps) <= 1
      /\ \A k \in seps :
            /\ s[k - 1] \in self.amount_pattern.digits
            /\ \A j \in (k + 1)..e : s[j] \in self.amount_pattern.digits

(***************************************************************************)
(* amount_pattern + between + currency_pattern matched at p, where between *)
(* is \s* (gap = Whitespace) or nothing (gap = {}).  The currency starts   *)
(* with a letter, which no amount holds, so it can only start at the first *)
(* character q from p on that is not an amount character, and the amount   *)
(* is what lies before it without the gap: the backtracking of the greedy  *)
(* repetitions has this one outcome or none.                               *)
(***************************************************************************)
AmountCurAt(self, s, p, gap) ==
  LET q == SkipWhile(s, p, AmountChars(self))
      e == SkipBack(s, q - 1, gap)
  IN  IF p <= Len(s) /\ s[p] \in self.amount_pattern.digits
         /\ CurrencyAt(self, s, q) /\ AmountIs(self, s, p, e)
      THEN Match(p, q + 3, p, e, q, q + 2)
      ELSE NoMatch

\* re.search(amount_pattern + r'\s*' + currency_pattern, s), from index from on
RECURSIVE SearchAmountCur(_, _, _)
SearchAmountCur(self, s, from) ==
  IF from > Len(s) THEN NoMatch
  ELSE OrElse(AmountCurAt(self, s, from, Whitespace),
              SearchAmountCur(self, s, from + 1))

\* re.finditer(amount_pattern + r'\s*' + currency_pattern, s): the matches in
\* text order, each search starting where the last match ended
RECURSIVE FindAllAmountCur(_, _, _)
FindAllAmountCur(self, s, from) ==
  LET andRest(m) ==
        IF m.ok THEN << m >> \o FindAllAmountCur(self, s, m.end) ELSE << >>
  IN  andRest(SearchAmountCur(self, s, from))

(***************************************************************************)
(* (?:w1|w2|...) + \s* or \s+ + amount + \s* + currency matched at k, the  *)
(* words compared with the lower-cased text ls (re.IGNORECASE): minGap is  *)
(* 0 for \s* and 1 for \s+.  The alternatives are tried in order.          *)
(***************************************************************************)
WordAmountCurAt(self, s, ls, k, words, minGap) ==
  LET amountAfter(i) ==
        LET p0 == k + Len(words[i])
            p == SkipWhile(s, p0, Whitespace)
        IN  IF StartsAt(ls, k, words[i]) /\ p - p0 >= minGap
            THEN AmountCurAt(self, s, p, Whitespace) ELSE NoMatch
      from(m) == IF m.ok THEN [m EXCEPT !.start = k] ELSE m
  IN  from(FirstOk([i \in DOMAIN words |-> amountAfter(i)]))

\* re.search of such a pattern: the match at the leftmost index from k on
RECURSIVE SearchWordAmountCurFrom(_, _, _, _, _, _)
SearchWordAmountCurFrom(self, s, ls, k, words, minGap) ==
  IF k > Len(s) THEN NoMatch
  ELSE OrElse(WordAmountCurAt(self, s, ls, k, words, minGap),
              SearchWordAmountCurFrom(self, s, ls, k + 1, words, minGap))

SearchWordAmountCur(self, s, words, minGap) ==
  SearchWordAmountCurFrom(self, s, LowerStr(s), 1, words, minGap)

(***************************************************************************)
(* (?:w1|w2|...) + gap + ([class]+) matched at k, the gap being \s* or \s+ *)
(* (minGap 0 or 1), or \s*:?\s* (colon TRUE).  group(1) is the whole run   *)
(* of class characters: nothing follows the greedy group.                  *)
(***************************************************************************)
WordRunAt(s, ls, k, words, minGap, colon, class) ==
  LET runAfter(i) ==
        LET p0 == k + Len(words[i])
            p1 == SkipWhile(s, p0, Whitespace)
            p2 == IF colon /\ p1 <= Len(s) /\ s[p1] = ":"
                  THEN SkipWhile(s, p1 + 1, Whitespace) ELSE p1
            e == SkipWhile(s, p2, class)
        IN  IF StartsAt(ls, k, words[i]) /\ p1 - p0 >= minGap /\ e > p2
            THEN Match(k, e, p2, e - 1, 0, 0) ELSE NoMatch
  IN  FirstOk([i \in DOMAIN words |-> runAfter(i)])

RECURSIVE SearchWordRunFrom(_, _, _, _, _, _, _)
SearchWordRunFrom(s, ls, k, words, minGap, colon, class) ==
  IF k > Len(s) THEN NoMatch
  ELSE OrElse(WordRunAt(s, ls, k, words, minGap, colon, class),
              SearchWordRunFrom(s, ls, k + 1, words, minGap, colon, class))

SearchWordRun(s, words, minGap, colon, class) ==
  SearchWordRunFrom(s, LowerStr(s), 1, words, minGap, colon, class)

\* re.search(r'([*0-9]{4,})', s): the first run of four or more card characters
RECURSIVE SearchCardRun(_, _)
SearchCardRun(s, from) ==
  LET p == FindIn(s, from, CardChars)
      e == SkipWhile(s, p, CardChars)
  IN  IF p > Len(s) THEN NoMatch
      ELSE IF e - p >= 4 THEN Match(p, e, p, e - 1, 0, 0)
      ELSE SearchCardRun(s, e)

\* re.search(r'([*0-9]+)\s*$', s): the run of card characters that ends the
\* text, trailing whitespace apart
SearchCardAtEnd(s) ==
  LET b == SkipBack(s, Len(s), Whitespace)
      a == SkipBack(s, b, CardChars) + 1
  IN  IF a <= b THEN Match(a, Len(s) + 1, a, b, 0, 0) ELSE NoMatch

\* \d+\.\d+\.\d+ matches at p
DateAt(s, p) ==
  LET d1 == SkipWhile(s, p, Digits)
      d2 == SkipWhile(s, d1 + 1, Digits)
  IN  /\ d1 > p /\ d1 <= Len(s) /\ s[d1] = "."
      /\ d2 > d1 + 1 /\ d2 < Len(s) /\ s[d2] = "."
      /\ s[d2 + 1] \in Digits

\* (?:\s+\d+\.\d+\.\d+|\s+(?:kartka|картка|card)) matches at j
DateOrCardAt(s, ls, j) ==
  LET p == SkipWhile(s, j, Whitespace)
  IN  /\ p > j
      /\ \/ DateAt(s, p)
         \/ \E i \in DOMAIN CounterpartyStopWords : StartsAt(ls, p, CounterpartyStopWords[i])

\* $ matches at j: the end of the text, or just before a newline that ends it
AtEnd(s, j) == j = Len(s) + 1 \/ (j = Len(s) /\ s[j] = "\n")

\* the tail of the two counterparty patterns of _parse_blocking matches at j:
\* a date or a card keyword, or (atEnd) $ as well
CounterpartyEndAt(s, ls, j, atEnd) == DateOrCardAt(s, ls, j) \/ (atEnd /\ AtEnd(s, j))

\* [A-Z0-9\s*\-] under re.IGNORECASE, the class of the first counterparty pattern
CounterpartyChars == AlnumChars \cup Whitespace \cup {"*", "-"}

\* a character of the group: of CounterpartyChars, or (anyNonDigit) of [^0-9]
InGroup(c, anyNonDigit) == IF anyNonDigit THEN c \notin Digits ELSE c \in CounterpartyChars

\* a lazy group (...+?) from g on, tried with its last character at j, j + 1,
\* ...: the index of the last character of the shortest group after which
\* the tail matches, 0 if there is none
RECURSIVE LazyEnd(_, _, _, _, _)
LazyEnd(s, ls, j, anyNonDigit, atEnd) ==
  IF j > Len(s) \/ ~InGroup(s[j], anyNonDigit) THEN 0
  ELSE IF CounterpartyEndAt(s, ls, j + 1, atEnd) THEN j
  ELSE LazyEnd(s, ls, j + 1, anyNonDigit, atEnd)

\* \s* then the lazy group, the greedy \s* giving back one character at a
\* time: the group starts at g, then at g - 1, ... down to first
RECURSIVE GapThenLazy(_, _, _, _, _, _, _)
GapThenLazy(s, ls, k, g, first, anyNonDigit, atEnd) ==
  IF g < first THEN NoMatch
  ELSE LET groupTo(j) ==
             IF j > 0 THEN Match(k, j + 1, g, j, 0, 0)
             ELSE GapThenLazy(s, ls, k, g - 1, first, anyNonDigit, atEnd)
       IN  groupTo(LazyEnd(s, ls, g, anyNonDigit, atEnd))

\* (?:w1|w2|...) + \s* + the lazy group + the tail, matched at k
WordLazyAt(s, ls, k, words, anyNonDigit, atEnd) ==
  LET groupAfter(i) ==
        LET first == k + Len(words[i])
        IN  IF StartsAt(ls, k, words[i])
            THEN GapThenLazy(s, ls, k, SkipWhile(s, first, Whitespace), first,
                             anyNonDigit, atEnd)
            ELSE NoMatch
  IN  FirstOk([i \in DOMAIN words |-> groupAfter(i)])

RECURSIVE SearchWordLazyFrom(_, _, _, _, _, _)
SearchWordLazyFrom(s, ls, k, words, anyNonDigit, atEnd) ==
  IF k > Len(s) THEN NoMatch
  ELSE OrElse(WordLazyAt(s, ls, k, words, anyNonDigit, atEnd),
              SearchWordLazyFrom(s, ls, k + 1, words, anyNonDigit, atEnd))

SearchWordLazy(s, words, anyNonDigit, atEnd) ==
  SearchWordLazyFrom(s, LowerStr(s), 1, words, anyNonDigit, atEnd)

----------------------------------------------------------------------------
(* The classifier *)

_is_balance_info_only(content, title) ==
  LET content_lower == LowerStr(content)
  IN  IF Contains(content_lower, KwBalansColon) /\ ~Contains(content_lower, KwPerekazCyr)
      THEN TRUE
      ELSE IF Contains(content_lower, KwBalans)
              /\ ~ContainsAny(content_lower, operation_keywords)
      THEN TRUE
      ELSE FALSE

_is_incoming(content, title) ==
  LET content_lower == LowerStr(content)
      title_lower == LowerStr(title)
  IN  \E k \in DOMAIN incoming_keywords :
         \/ Contains(content_lower, incoming_keywords[k])
         \/ Contains(title_lower, incoming_keywords[k])

_is_blocking(content) == ContainsAny(LowerStr(content), blocking_keywords)

\* re.search(r'-\s*\d+', s)
MinusDigits(s) ==
  \E i \in 1..Len(s) :
     /\ s[i] = "-"
     /\ LET p == SkipWhile(s, i + 1, Whitespace)
        IN  p <= Len(s) /\ s[p] \in Digits

\* _is_outgoing accepting the minus sign only as the first character of the
\* title: the variant that C18 tells apart from the code
_is_outgoing_leading_minus(content, title) ==
  LET content_lower == LowerStr(content)
      title_lower == LowerStr(title)
  IN  IF title_lower # << >> /\ title_lower[1] = "-" /\ MinusDigits(title_lower) THEN TRUE
      ELSE \E k \in DOMAIN outgoing_keywords :
              \/ Contains(content_lower, outgoing_keywords[k])
              \/ Contains(title_lower, outgoing_keywords[k])

_is_outgoing(content, title) ==
  LET content_lower == LowerStr(content)
      title_lower == LowerStr(title)
  IN  IF MinusDigits(title_lower) THEN TRUE
      ELSE \E k \in DOMAIN outgoing_keywords :
              \/ Contains(content_lower, outgoing_keywords[k])
              \/ Contains(title_lower, outgoing_keywords[k])

----------------------------------------------------------------------------
(* The record, and the steps that fill it *)

\* parse: the initial result, every field None
EmptyRecord ==
  [bank_account_balance |-> None, bank_account_currency |-> None,
   bank_account_details |-> None, operation_amount |-> None,
   operation_currency |-> None, operation_type |-> None,
   counterparty_details |-> None]

(***************************************************************************)
(* A routine runs its statements in order on the result dictionary; a      *)
(* ValueError of _normalize_number leaves the routine at once.  The state  *)
(* of a running routine is the dictionary and whether it has raised.       *)
(***************************************************************************)
Running(result) == [raised |-> FALSE, result |-> result]

\* result["operation_type"] = type
PutType(st, type) == [st EXCEPT !.result.operation_type = Some(type)]

\* PutAmount without the assignment of the currency: the variant that C2
\* tells apart from the code
PutAmountOnly(st, s, m) ==
  LET put(v) ==
        IF ~v.ok THEN [st EXCEPT !.raised = TRUE]
        ELSE [st EXCEPT !.result.operation_amount = Some(v.value)]
  IN  IF st.raised \/ ~m.ok THEN st ELSE put(_normalize_number(Group1(s, m)))

\* if m: result["operation_amount"] = self._normalize_number(m.group(1))
\*       result["operation_currency"] = m.group(2)
PutAmount(st, s, m) ==
  LET put(v) ==
        IF ~v.ok THEN [st EXCEPT !.raised = TRUE]
        ELSE [st EXCEPT !.result.operation_amount = Some(v.value),
                        !.result.operation_currency = Some(Group2(s, m))]
  IN  IF st.raised \/ ~m.ok THEN st ELSE put(_normalize_number(Group1(s, m)))

\* if m: result["bank_account_balance"] = self._normalize_number(m.group(1))
\*       result["bank_account_currency"] = m.group(2)
PutBalance(st, s, m) ==
  LET put(v) ==
        IF ~v.ok THEN [st EXCEPT !.raised = TRUE]
        ELSE [st EXCEPT !.result.bank_account_balance = Some(v.value),
                        !.result.bank_account_currency = Some(Group2(s, m))]
  IN  IF st.raised \/ ~m.ok THEN st ELSE put(_normalize_number(Group1(s, m)))

\* if m: result["bank_account_details"] = m.group(1)
PutDetails(st, s, m) ==
  IF st.raised \/ ~m.ok THEN st
  ELSE [st EXCEPT !.result.bank_account_details = Some(Group1(s, m))]

\* result["counterparty_details"] = cp, cp being None or Some(text)
PutCounterparty(st, cp) ==
  IF st.raised THEN st ELSE [st EXCEPT !.result.counterparty_details = cp]

\* what the call does in the end: return the dictionary, or raise
Outcome(st) ==
  IF st.raised THEN [kind |-> "raise", error |-> "ValueError"]
  ELSE [kind |-> "return", result |-> st.result]

----------------------------------------------------------------------------
(* The extraction routines *)

\* _parse_balance_info taking the first pair of the content as the operation
\* amount: the variant that C11 tells apart from the code
_parse_balance_info_with_amount(self, content, title, result) ==
  LET st0 == PutType(Running(result), "balance_info")
      balance_match == SearchWordAmountCur(self, content, << KwBalansColon >>, 0)
      card_match == SearchWordRun(content, << KwKartkaColon >>, 0, FALSE, CardChars)
  IN  PutDetails(PutBalance(PutAmount(st0, content, SearchAmountCur(self, content, 1)),
                            content, balance_match),
                 content, card_match)

_parse_balance_info(self, content, title, result) ==
  LET st0 == [Running(result) EXCEPT !.result.operation_type = Some("balance_info"),
                                     !.result.operation_amount = None,
                                     !.result.operation_currency = None,
                                     !.result.counterparty_details = None]
      balance_match == SearchWordAmountCur(self, content, << KwBalansColon >>, 0)
      card_match == SearchWordRun(content, << KwKartkaColon >>, 0, FALSE, CardChars)
  IN  PutDetails(PutBalance(st0, content, balance_match), content, card_match)

\* dostupno\s+ amount \s* currency \.\s+ matched at k
DostupnoDotAt(self, s, ls, k) ==
  LET dotAfter(m) ==
        LET e == IF m.ok THEN SkipWhile(s, m.end + 1, Whitespace) ELSE 0
        IN  IF m.ok /\ m.end <= Len(s) /\ s[m.end] = "." /\ e > m.end + 1
            THEN [m EXCEPT !.end = e] ELSE NoMatch
  IN  dotAfter(WordAmountCurAt(self, s, ls, k, << KwDostupno >>, 1))

RECURSIVE SearchDostupnoDotFrom(_, _, _, _)
SearchDostupnoDotFrom(self, s, ls, k) ==
  IF k > Len(s) THEN NoMatch
  ELSE OrElse(DostupnoDotAt(self, s, ls, k),
              SearchDostupnoDotFrom(self, s, ls, k + 1))

\* [A-Z0-9\s*\-\.] under re.IGNORECASE
EndCounterpartyChars == AlnumChars \cup Whitespace \cup {"*", "-", "."}

\* the lazy group of ^([A-Z][A-Z0-9\s*\-\.]+?)(?:\.|$), its last character
\* tried at j, j + 1, ...: the index of the last character, 0 if no match
RECURSIVE EndCounterpartyEnd(_, _)
EndCounterpartyEnd(a, j) ==
  IF j > Len(a) \/ a[j] \notin EndCounterpartyChars THEN 0
  ELSE IF (j + 1 <= Len(a) /\ a[j + 1] = ".") \/ AtEnd(a, j + 1) THEN j
  ELSE EndCounterpartyEnd(a, j + 1)

\* _parse_incoming, the counterparty after the "Dostupno" section: None, or
\* Some(text) when there is a meaningful one
EndCounterparty(self, content) ==
  LET meaningful(end_counterparty) ==
        IF /\ Len(end_counterparty) > 2
           /\ \A i \in DOMAIN Placeholders : UpperStr(end_counterparty) # Placeholders[i]
        THEN Some(end_counterparty) ELSE None
      leading(after_dostupno) ==
        LET j == IF Len(after_dostupno) >= 1 /\ after_dostupno[1] \in LatinLetters
                 THEN EndCounterpartyEnd(after_dostupno, 2) ELSE 0
        IN  IF j > 0 THEN meaningful(Strip(SubSeq(after_dostupno, 1, j))) ELSE None
      after(dostupno_match) ==
        IF dostupno_match.ok
        THEN leading(Strip(SubSeq(content, dostupno_match.end, Len(content))))
        ELSE None
  IN  after(SearchDostupnoDotFrom(self, content, LowerStr(content), 1))

\* ParseIncomingPrefixed using the counterparty after the "Dostupno" section
\* whenever there is one, the token after "Perekaz:" only otherwise: the
\* variant that C12 tells apart from the code
ParseIncomingPrefixed_end_first(self, content, st0) ==
  LET primary(counterparty_match) ==
        IF counterparty_match.ok
        THEN PutCounterparty(st0, Some(Group1(content, counterparty_match)))
        ELSE st0
      atEnd(end_counterparty) ==
        IF end_counterparty # None THEN PutCounterparty(st0, end_counterparty)
        ELSE primary(SearchWordRun(content, << KwPerekazColon >>, 0, FALSE, AlnumChars))
      st1 == atEnd(EndCounterparty(self, content))
      amount_match == SearchWordAmountCur(self, content, << KwNaSumu >>, 1)
      balance_match == SearchWordAmountCur(self, content, << KwDostupno >>, 1)
      card_match == SearchWordRun(content, << KwNaKartku >>, 1, FALSE, CardChars)
  IN  PutDetails(PutBalance(PutAmount(st1, content, amount_match),
                            content, balance_match),
                 content, card_match)

\* _parse_incoming, the branch of the "Perekaz:" format
ParseIncomingPrefixed(self, content, st0) ==
  LET atEnd(end_counterparty) ==
        IF end_counterparty # None THEN PutCounterparty(st0, end_counterparty) ELSE st0
      primary(counterparty_match) ==
        IF counterparty_match.ok
        THEN PutCounterparty(st0, Some(Group1(content, counterparty_match)))
        ELSE atEnd(EndCounterparty(self, content))
      st1 == primary(SearchWordRun(content, << KwPerekazColon >>, 0, FALSE, AlnumChars))
      amount_match == SearchWordAmountCur(self, content, << KwNaSumu >>, 1)
      balance_match == SearchWordAmountCur(self, content, << KwDostupno >>, 1)
      card_match == SearchWordRun(content, << KwNaKartku >>, 1, FALSE, CardChars)
  IN  PutDetails(PutBalance(PutAmount(st1, content, amount_match),
                            content, balance_match),
                 content, card_match)

\* content[max(0, start_pos-20):start_pos].lower(), for the match m
ContextBefore(content, m) ==
  LowerStr(SubSeq(content, IF m.start - 20 > 1 THEN m.start - 20 ELSE 1, m.start - 1))

\* _parse_incoming: the first amount-currency pair anywhere that is not part
\* of "Доступно:"
AmountNotAvailable(self, content) ==
  LET firstFree(all) ==
        LET free == {i \in DOMAIN all :
                       ~Contains(ContextBefore(content, all[i]), KwDostupnoCyr)}
        IN  IF free = {} THEN NoMatch ELSE all[Least(free)]
  IN  firstFree(FindAllAmountCur(self, content, 1))

\* ^\d+[-.]\d+[-.]\d+ matches the line
DateLine(line) ==
  LET d1 == SkipWhile(line, 1, Digits)
      d2 == SkipWhile(line, d1 + 1, Digits)
  IN  /\ d1 > 1 /\ d1 <= Len(line) /\ line[d1] \in {"-", "."}
      /\ d2 > d1 + 1 /\ d2 < Len(line) /\ line[d2] \in {"-", "."}
      /\ line[d2 + 1] \in Digits

\* ^\d+\.\d+ matches the line
DecimalLine(line) ==
  LET d1 == SkipWhile(line, 1, Digits)
  IN  d1 > 1 /\ d1 < Len(line) /\ line[d1] = "." /\ line[d1 + 1] \in Digits

\* _parse_incoming: the counterparty on a line of its own after the amount
\* line: None, or Some(line)
LineCounterparty(self, content) ==
  LET skipped(next_line) ==
        \/ DateLine(next_line)
        \/ Contains(LowerStr(next_line), KwKartkaColon)
        \/ Contains(LowerStr(next_line), KwDostupnoColon)
        \/ DecimalLine(next_line)
      candidate(next_line) ==
        next_line # << >> /\ ~skipped(next_line) /\ Len(next_line) > 2
      nextOf(lines, i) ==
        LET last == IF i + 3 < Len(lines) THEN i + 3 ELSE Len(lines)
            found == {j \in (i + 1)..last : candidate(Strip(lines[j]))}
        IN  IF found = {} THEN None ELSE Some(Strip(lines[Least(found)]))
      after(lines, amountLines) ==
        IF amountLines = {} THEN None ELSE nextOf(lines, Least(amountLines))
      onLines(lines) ==
        after(lines, {i \in DOMAIN lines : AmountCurAt(self, Strip(lines[i]), 1, {}).ok})
  IN  onLines(SplitLines(content))

\* ParseIncomingLines trying the pair at the start of the content before the
\* pair after "Надходження:": the variant that C16 tells apart from the code
ParseIncomingLines_start_first(self, content, st0) ==
  LET content_lower == LowerStr(content)
      marked == IF Contains(content_lower, KwNadkhodzhenniaColon)
                THEN SearchWordAmountCur(self, content, << KwNadkhodzhenniaColon >>, 0)
                ELSE NoMatch
      amount_match == OrElse(OrElse(AmountCurAt(self, content, 1, Whitespace), marked),
                             AmountNotAvailable(self, content))
      balance_match == SearchWordAmountCur(self, content, << KwDostupnoColon >>, 0)
      card_match == SearchWordRun(content, << KwKartkaColon >>, 0, FALSE, CardChars)
      st1 == PutDetails(PutBalance(PutAmount(st0, content, amount_match),
                                   content, balance_match),
                        content, card_match)
      withCounterparty(st, counterparty) ==
        IF counterparty # None THEN PutCounterparty(st, counterparty) ELSE st
  IN  withCounterparty(st1, LineCounterparty(self, content))

\* _parse_incoming, the branch of the line-oriented format
ParseIncomingLines(self, content, st0) ==
  LET content_lower == LowerStr(content)
      marked == IF Contains(content_lower, KwNadkhodzhenniaColon)
                THEN SearchWordAmountCur(self, content, << KwNadkhodzhenniaColon >>, 0)
                ELSE NoMatch
      amount_match == OrElse(OrElse(marked, AmountCurAt(self, content, 1, Whitespace)),
                             AmountNotAvailable(self, content))
      balance_match == SearchWordAmountCur(self, content, << KwDostupnoColon >>, 0)
      card_match == SearchWordRun(content, << KwKartkaColon >>, 0, FALSE, CardChars)
      st1 == PutDetails(PutBalance(PutAmount(st0, content, amount_match),
                                   content, balance_match),
                        content, card_match)
      withCounterparty(st, counterparty) ==
        IF counterparty # None THEN PutCounterparty(st, counterparty) ELSE st
  IN  withCounterparty(st1, LineCounterparty(self, content))

_parse_incoming(self, content, title, result) ==
  LET st0 == PutType(Running(result), "in")
      content_lower == LowerStr(content)
  IN  IF Contains(content_lower, KwPerekazColon)
      THEN ParseIncomingPrefixed(self, content, st0)
      ELSE IF \/ Contains(LowerStr(title), KwNadkhodzhennia)
              \/ Contains(content_lower, KwDostupnoColon)
              \/ Contains(content_lower, KwNadkhodzhenniaColon)
      THEN ParseIncomingLines(self, content, st0)
      ELSE st0

\* _parse_blocking: the second counterparty pattern, keyword by keyword from
\* the i-th on: None, or Some(text)
RECURSIVE FallbackCounterparty(_, _)
FallbackCounterparty(content, i) ==
  IF i > Len(BlockingFallbackKeywords) THEN None
  ELSE LET keyword == BlockingFallbackKeywords[i]
           long(counterparty) ==
             IF Len(counterparty) > 2 THEN Some(counterparty)
             ELSE FallbackCounterparty(content, i + 1)
           after(match) ==
             IF Contains(LowerStr(content), keyword) /\ match.ok
             THEN long(Strip(Group1(content, match)))
             ELSE FallbackCounterparty(content, i + 1)
       IN  after(SearchWordLazy(content, << keyword \o << ":" >> >>, TRUE, TRUE))

\* _parse_blocking taking the first pair of the content as the amount even
\* when it is the only pair: the variant that C13 tells apart from the code
_parse_blocking_single_pair(self, content, result) ==
  LET st0 == PutType(Running(result), "reject")
      firstOfAny(all_amounts) ==
        IF Len(all_amounts) >= 1 THEN all_amounts[1] ELSE NoMatch
      amount_match == OrElse(SearchWordAmountCur(self, content, SumaWords, 1),
                             firstOfAny(FindAllAmountCur(self, content, 1)))
      balance_match == OrElse(SearchWordAmountCur(self, content, AvailableWords, 1),
                              SearchWordAmountCur(self, content, BalanceColonWords, 0))
      card_match == OrElse(SearchWordRun(content, CardWords, 0, TRUE, CardChars),
                           SearchCardRun(content, 1))
      st1 == PutDetails(PutBalance(PutAmount(st0, content, amount_match),
                                   content, balance_match),
                        content, card_match)
      orFallback(st, fallback) ==
        IF fallback # None THEN PutCounterparty(st, fallback) ELSE st
      withCounterparty(st, counterparty_match) ==
        IF counterparty_match.ok
        THEN PutCounterparty(st, Some(Strip(Group1(content, counterparty_match))))
        ELSE orFallback(st, FallbackCounterparty(content, 1))
  IN  withCounterparty(st1, SearchWordLazy(content, BlockingCounterpartyWords, FALSE, FALSE))

_parse_blocking(self, content, result) ==
  LET st0 == PutType(Running(result), "reject")
      firstOfSeveral(all_amounts) ==
        IF Len(all_amounts) >= 2 THEN all_amounts[1] ELSE NoMatch
      amount_match == OrElse(SearchWordAmountCur(self, content, SumaWords, 1),
                             firstOfSeveral(FindAllAmountCur(self, content, 1)))
      balance_match == OrElse(SearchWordAmountCur(self, content, AvailableWords, 1),
                              SearchWordAmountCur(self, content, BalanceColonWords, 0))
      card_match == OrElse(SearchWordRun(content, CardWords, 0, TRUE, CardChars),
                           SearchCardRun(content, 1))
      st1 == PutDetails(PutBalance(PutAmount(st0, content, amount_match),
                                   content, balance_match),
                        content, card_match)
      orFallback(st, fallback) ==
        IF fallback # None THEN PutCounterparty(st, fallback) ELSE st
      withCounterparty(st, counterparty_match) ==
        IF counterparty_match.ok
        THEN PutCounterparty(st, Some(Strip(Group1(content, counterparty_match))))
        ELSE orFallback(st, FallbackCounterparty(content, 1))
  IN  withCounterparty(st1, SearchWordLazy(content, BlockingCounterpartyWords, FALSE, FALSE))

\* _parse_outgoing reading the amount from the content whenever the content
\* holds a pair, whatever the title: the variant that C14 tells apart from
\* the code
_parse_outgoing_content_amount(self, content, title, result) ==
  LET st0 == PutType(Running(result), "out")
      st1 ==
        IF MinusDigits(title)
        THEN LET amount_match == OrElse(SearchAmountCur(self, content, 1),
                                        SearchWordAmountCur(self, title, << << "-" >> >>, 0))
                 balance_match == SearchWordAmountCur(self, title, TitleAvailableWords, 1)
                 card_match == SearchCardAtEnd(title)
             IN  PutDetails(PutBalance(PutAmount(st0, IF SearchAmountCur(self, content, 1).ok
                                                      THEN content ELSE title,
                                                 amount_match),
                                       title, balance_match),
                            title, card_match)
        ELSE LET amount_match == SearchAmountCur(self, content, 1)
                 balance_match == SearchWordAmountCur(self, content, OutBalanceWords, 1)
                 card_match == OrElse(SearchWordRun(content, OutCardWords, 0, TRUE, CardChars),
                                      SearchCardRun(content, 1))
             IN  PutDetails(PutBalance(PutAmount(st0, content, amount_match),
                                       content, balance_match),
                            content, card_match)
  IN  PutCounterparty(st1, None)

_parse_outgoing(self, content, title, result) ==
  LET st0 == PutType(Running(result), "out")
      st1 ==
        IF MinusDigits(title)
        THEN LET amount_match == SearchWordAmountCur(self, title, << << "-" >> >>, 0)
                 balance_match == SearchWordAmountCur(self, title, TitleAvailableWords, 1)
                 card_match == SearchCardAtEnd(title)
             IN  PutDetails(PutBalance(PutAmount(st0, title, amount_match),
                                       title, balance_match),
                            title, card_match)
        ELSE LET amount_match == SearchAmountCur(self, content, 1)
                 balance_match == SearchWordAmountCur(self, content, OutBalanceWords, 1)
                 card_match == OrElse(SearchWordRun(content, OutCardWords, 0, TRUE, CardChars),
                                      SearchCardRun(content, 1))
             IN  PutDetails(PutBalance(PutAmount(st0, content, amount_match),
                                       content, balance_match),
                            content, card_match)
  IN  PutCounterparty(st1, None)

\* _parse_generic taking the last pair as the balance even when it is the
\* only pair: the variant that C19 tells apart from the code
_parse_generic_single_balance(self, content, title, result) ==
  LET st0 == Running(result)
      last(st, amount_matches) ==
        IF Len(amount_matches) >= 1
        THEN PutBalance(st, content, amount_matches[Len(amount_matches)])
        ELSE st
      first(amount_matches) ==
        IF amount_matches # << >>
        THEN last(PutAmount(st0, content, amount_matches[1]), amount_matches)
        ELSE st0
      st1 == first(FindAllAmountCur(self, content, 1))
      card_match == SearchCardRun(content, 1)
  IN  PutDetails(st1, content, card_match)

_parse_generic(self, content, title, result) ==
  LET st0 == Running(result)
      last(st, amount_matches) ==
        IF Len(amount_matches) > 1
        THEN PutBalance(st, content, amount_matches[Len(amount_matches)])
        ELSE st
      first(amount_matches) ==
        IF amount_matches # << >>
        THEN last(PutAmount(st0, content, amount_matches[1]), amount_matches)
        ELSE st0
      st1 == first(FindAllAmountCur(self, content, 1))
      card_match == SearchCardRun(content, 1)
  IN  PutDetails(st1, content, card_match)

----------------------------------------------------------------------------
(* parse *)

\* parse with the blocking predicate tried before the incoming one: the
\* variant that C3 tells apart from the code
parse_blocking_first(self, text_content, app_name, title) ==
  LET result == EmptyRecord
  IN  IF _is_balance_info_only(text_content, title)
      THEN Outcome(_parse_balance_info(self, text_content, title, result))
      ELSE IF _is_blocking(text_content)
      THEN Outcome(_parse_blocking(self, text_content, result))
      ELSE IF _is_incoming(text_content, title)
      THEN Outcome(_parse_incoming(self, text_content, title, result))
      ELSE IF _is_outgoing(text_content, title)
      THEN Outcome(_parse_outgoing(self, text_content, title, result))
      ELSE Outcome(_parse_generic(self, text_content, title, result))

\* parse with a routine chosen by the application name: the variant that C5
\* tells apart from the code
parse_by_app(self, text_content, app_name, title) ==
  LET result == EmptyRecord
  IN  IF app_name = <<"P", "U", "M", "B">>
      THEN Outcome(_parse_generic(self, text_content, title, result))
      ELSE IF _is_balance_info_only(text_content, title)
      THEN Outcome(_parse_balance_info(self, text_content, title, result))
      ELSE IF _is_incoming(text_content, title)
      THEN Outcome(_parse_incoming(self, text_content, title, result))
      ELSE IF _is_blocking(text_content)
      THEN Outcome(_parse_blocking(self, text_content, result))
      ELSE IF _is_outgoing(text_content, title)
      THEN Outcome(_parse_outgoing(self, text_content, title, result))
      ELSE Outcome(_parse_generic(self, text_content, title, result))

\* parse, lines 23-72
parse(self, text_content, app_name, title) ==
  LET original_content == text_content
      original_title == title
      result == EmptyRecord
  IN  IF _is_balance_info_only(original_content, original_title)
      THEN Outcome(_parse_balance_info(self, original_content, original_title, result))
      ELSE IF _is_incoming(original_content, original_title)
      THEN Outcome(_parse_incoming(self, original_content, original_title, result))
      ELSE IF _is_blocking(original_content)
      THEN Outcome(_parse_blocking(self, original_content, result))
      ELSE IF _is_outgoing(original_content, original_title)
      THEN Outcome(_parse_outgoing(self, original_content, original_title, result))
      ELSE Outcome(_parse_generic(self, original_content, original_title, result))

----------------------------------------------------------------------------
(* Batch ingestion: parse_test_case_file of test_parser.py *)

KeyAppName == <<"a", "p", "p", "_", "n", "a", "m", "e", ":">>

KeyTitle == <<"t", "i", "t", "l", "e", ":">>

KeyContent == <<"c", "o", "n", "t", "e", "n", "t", ":">>

\* '\n'.join(texts)
RECURSIVE JoinLines(_)
JoinLines(texts) ==
  IF texts = << >> THEN << >>
  ELSE IF Len(texts) = 1 THEN texts[1]
  ELSE texts[1] \o << "\n" >> \o JoinLines(Tail(texts))

\* stripped.split(key, 1)[1].strip(), for a text that starts with the key
AfterKey(stripped, key) == Strip(SubSeq(stripped, Len(key) + 1, Len(stripped)))

\* current_example = {}: a dictionary is modelled by its three possible keys,
\* None for a key it does not have
NoExample == [app_name |-> None, title |-> None, content |-> None]

\* the state of the loop before its first line
FileStart ==
  [examples |-> << >>, current_example |-> NoExample,
   current_content_lines |-> << >>, in_content |-> FALSE]

\* if current_content_lines: current_example['content'] = '\n'.join(...)
\* examples.append(current_example); current_example = {}
\* current_content_lines = []
AppendExample(st) ==
  [st EXCEPT !.examples =
               Append(st.examples,
                      IF st.current_content_lines # << >>
                      THEN [st.current_example EXCEPT
                              !.content = Some(JoinLines(st.current_content_lines))]
                      ELSE st.current_example),
             !.current_example = NoExample,
             !.current_content_lines = << >>]

\* the body of the loop for one line, already stripped
FileLine(st, stripped) ==
  IF stripped = << >>
  THEN IF st.current_example # NoExample
       THEN [AppendExample(st) EXCEPT !.in_content = FALSE]
       ELSE st
  ELSE IF StartsAt(stripped, 1, KeyAppName)
  THEN [(IF st.current_example # NoExample THEN AppendExample(st) ELSE st)
          EXCEPT !.current_example.app_name = Some(AfterKey(stripped, KeyAppName)),
                 !.in_content = FALSE]
  ELSE IF StartsAt(stripped, 1, KeyTitle)
  THEN [st EXCEPT !.current_example.title = Some(AfterKey(stripped, KeyTitle)),
                  !.in_content = FALSE]
  ELSE IF StartsAt(stripped, 1, KeyContent)
  THEN IF AfterKey(stripped, KeyContent) = << "|" >>
       THEN [st EXCEPT !.in_content = TRUE]
       ELSE [st EXCEPT !.current_content_lines = Append(@, AfterKey(stripped, KeyContent)),
                       !.in_content = TRUE]
  ELSE IF st.in_content \/ st.current_example # NoExample
  THEN [st EXCEPT !.current_content_lines = Append(@, stripped),
                  !.in_content = TRUE]
  ELSE st

\* for line in lines: ..., from the state st on
RECURSIVE FileLoop(_, _)
FileLoop(st, lines) ==
  IF lines = << >> THEN st
  ELSE FileLoop(FileLine(st, Strip(Head(lines))), Tail(lines))

\* parse_test_case_file, of the lines f.readlines() gave
parse_test_case_file(lines) ==
  LET last(st) == IF st.current_example # NoExample THEN AppendExample(st).examples
                  ELSE st.examples
  IN  last(FileLoop(FileStart, lines))

----------------------------------------------------------------------------
(* File ingestion: parse_file *)

\* app_name = "", title = "", content_lines = [], in_content = False
IngestStart ==
  [app_name |-> << >>, title |-> << >>, content_lines |-> << >>, in_content |-> FALSE]

\* the body of the loop of parse_file for one line, already stripped
IngestLine(st, stripped) ==
  IF stripped = << >>
  THEN IF st.in_content THEN [st EXCEPT !.content_lines = Append(@, << >>)] ELSE st
  ELSE IF StartsAt(stripped, 1, KeyAppName)
  THEN [st EXCEPT !.app_name = AfterKey(stripped, KeyAppName), !.in_content = FALSE]
  ELSE IF StartsAt(stripped, 1, KeyTitle)
  THEN [st EXCEPT !.title = AfterKey(stripped, KeyTitle), !.in_content = FALSE]
  ELSE IF StartsAt(stripped, 1, KeyContent)
  THEN IF AfterKey(stripped, KeyContent) = << "|" >>
       THEN [st EXCEPT !.in_content = TRUE]
       ELSE [st EXCEPT !.content_lines = Append(@, AfterKey(stripped, KeyContent)),
                       !.in_content = TRUE]
  ELSE [st EXCEPT !.content_lines = Append(@, stripped), !.in_content = TRUE]

\* for line in lines: ..., from the state st on
RECURSIVE IngestLoop(_, _)
IngestLoop(st, lines) ==
  IF lines = << >> THEN st
  ELSE IngestLoop(IngestLine(st, Strip(Head(lines))), Tail(lines))

\* parse_file up to its last line: the arguments it calls parse with, of the
\* lines f.readlines() gave
ParseFileArguments(lines) ==
  LET args(st) == [content |-> JoinLines(st.content_lines),
                   app_name |-> st.app_name, title |-> st.title]
  IN  args(IngestLoop(IngestStart, lines))

----------------------------------------------------------------------------
(* State *)

VARIABLES
  self,           \* the parser: its fields currency_pattern and amount_pattern
  text_content,   \* the arguments of the parse call being made
  app_name,
  title,
  outcome,        \* what the call did: pending, or it returned a record or raised
  history,        \* the calls made on this parser before, with their outcomes
  number_str,     \* the argument of the _normalize_number call being made
  number,         \* what that call did
  lines,          \* the lines of the file parse_test_case_file is given
  examples,       \* what parse_test_case_file returns
  pc

vars == << self, text_content, app_name, title, outcome, history, number_str, number,
          lines, examples, pc >>

\* BankTransactionParser.__init__
__init__ == [currency_pattern |-> currency_pattern, amount_pattern |-> amount_pattern]

Pending == [kind |-> "pending"]

\* all sequences over S of length at most n
SeqsUpTo(S, n) == UNION {[1..k -> S] : k \in 0..n}

\* the concatenation of a sequence of texts
RECURSIVE Concat(_)
Concat(ws) == IF ws = << >> THEN << >> ELSE Head(ws) \o Concat(Tail(ws))

\* parser.parse(text_content, app_name, title)
Parse ==
  /\ pc = "call"
  /\ outcome' = parse(self, text_content, app_name, title)
  /\ pc' = "done"
  /\ UNCHANGED << self, text_content, app_name, title, history, number_str, number,
                  lines, examples >>

\* parser._normalize_number(number_str)
Normalize ==
  /\ pc = "normalize"
  /\ LET r == _normalize_number(number_str)
     IN  number' = IF r.ok THEN [kind |-> "return", value |-> r.value]
                   ELSE [kind |-> "raise", error |-> "ValueError"]
  /\ pc' = "done"
  /\ UNCHANGED << self, text_content, app_name, title, outcome, history, number_str,
                  lines, examples >>

\* parse_test_case_file(file_path), lines being what the file holds
ParseTestCaseFile ==
  /\ pc = "file"
  /\ examples' = parse_test_case_file(lines)
  /\ pc' = "done"
  /\ UNCHANGED << self, text_content, app_name, title, outcome, history, number_str, number,
                  lines >>

\* parser.parse_file(file_path), lines being what the file holds
ParseFile ==
  /\ pc = "parse_file"
  /\ LET call(args) ==
           /\ text_content' = args.content
           /\ app_name' = args.app_name
           /\ title' = args.title
           /\ outcome' = parse(self, args.content, args.app_name, args.title)
     IN  call(ParseFileArguments(lines))
  /\ pc' = "done"
  /\ UNCHANGED << self, history, number_str, number, lines, examples >>

----------------------------------------------------------------------------
(* Specifications *)

(***************************************************************************)
(* Spec: one parse call on a fresh parser.  The content is any sequence of *)
(* at most MaxWords fragments of notifications, the title one of Titles.   *)
(***************************************************************************)
MaxWords == 3

Words ==
  { <<"CY:B", "cy:a", "cy:l", "cy:a", "cy:n", "cy:s", ":", " ">>,
    <<"P", "e", "r", "e", "k", "a", "z", ":", " ">>,
    <<"n", "a", " ", "s", "u", "m", "u", " ">>,
    <<"CY:N", "cy:a", "cy:d", "cy:h", "cy:o", "cy:d", "cy:zh", "cy:e", "cy:n", "cy:n", "cy:ya", ":", " ">>,
    <<"r", "e", "j", "e", "c", "t", ":", " ">>,
    <<"p", "a", "y", "m", "e", "n", "t">>,
    <<"c", "a", "r", "d">>,
    <<"\n">>,
    <<"5", " ", "U", "A", "H">>,
    <<"1", ",", "5", " ", "u", "a", "h">>,
    <<"*", "0", "0", "0", "0">> }

Titles ==
  { << >>,
    <<"-", "1", ",", "5", " ", "u", "a", "h", " ", "*", "0", "0", "0", "0">>,
    <<"CY:N", "cy:a", "cy:d", "cy:h", "cy:o", "cy:d", "cy:zh", "cy:e", "cy:n", "cy:n", "cy:ya">> }

Init ==
  /\ self = __init__
  /\ \E ws \in SeqsUpTo(Words, MaxWords) : text_content = Concat(ws)
  /\ app_name = << >>
  /\ title \in Titles
  /\ outcome = Pending /\ history = << >>
  /\ number_str = << >> /\ number = Pending
  /\ lines = << >> /\ examples = << >>
  /\ pc = "call"

Next == Parse

Spec == Init /\ [][Next]_vars

(***************************************************************************)
(* SpecNormalize: one _normalize_number call, on any token of at most      *)
(* MaxTokenLen characters and on the tokens the documentation names.       *)
(***************************************************************************)
MaxTokenLen == 5

TokenChars == {"1", "2", "0", " ", "\n", ",", "."}

Token_1_250_50 == <<"1", " ", "2", "5", "0", ".", "5", "0">>

Token_3_500_00 == <<"3", " ", "5", "0", "0", ",", "0", "0">>

Token_1250_50 == <<"1", "2", "5", "0", ",", "5", "0">>

Token_1_250_50_comma == <<"1", ",", "2", "5", "0", ".", "5", "0">>

ExampleTokens == {Token_1_250_50, Token_3_500_00, Token_1250_50, Token_1_250_50_comma}

InitNormalize ==
  /\ self = __init__
  /\ text_content = << >> /\ app_name = << >> /\ title = << >>
  /\ outcome = Pending /\ history = << >>
  /\ number_str \in SeqsUpTo(TokenChars, MaxTokenLen) \cup ExampleTokens
  /\ number = Pending
  /\ lines = << >> /\ examples = << >>
  /\ pc = "normalize"

NextNormalize == Normalize

SpecNormalize == InitNormalize /\ [][NextNormalize]_vars

(***************************************************************************)
(* SpecCalls: up to MaxCalls parse calls, one after the other, on the same *)
(* parser, with any arguments out of CallContents, AppNames, CallTitles.   *)
(***************************************************************************)
MaxCalls == 2

CallContents ==
  { << >>,
    <<"CY:B", "cy:a", "cy:l", "cy:a", "cy:n", "cy:s", ":", " ", "5", " ", "U", "A", "H">>,
    <<"CY:N", "cy:a", "cy:d", "cy:h", "cy:o", "cy:d", "cy:zh", "cy:e", "cy:n", "cy:n", "cy:ya", ":", " ", "5", " ", "U", "A", "H">>,
    <<"r", "e", "j", "e", "c", "t", ":", " ", "5", " ", "U", "A", "H">>,
    <<"p", "a", "y", "m", "e", "n", "t", " ", "5", " ", "U", "A", "H">>,
    <<"*", "0", "0", "0", "0", "\n", "5", " ", "U", "A", "H">> }

CallTitles == { << >>, <<"-", "1", ",", "5", " ", "u", "a", "h", " ", "*", "0", "0", "0", "0">> }

AppNames == { << >>, <<"P", "U", "M", "B">>, <<"U", "K", "R", "S", "I", "B">> }

InitCalls ==
  /\ self = __init__
  /\ text_content \in CallContents
  /\ app_name \in AppNames
  /\ title \in CallTitles
  /\ outcome = Pending /\ history = << >>
  /\ number_str = << >> /\ number = Pending
  /\ lines = << >> /\ examples = << >>
  /\ pc = "call"

\* the caller makes its next call on the same parser
NextCall ==
  /\ pc = "done"
  /\ Len(history) + 1 < MaxCalls
  /\ history' = Append(history, [text_content |-> text_content, app_name |-> app_name,
                                 title |-> title, outcome |-> outcome])
  /\ text_content' \in CallContents
  /\ app_name' \in AppNames
  /\ title' \in CallTitles
  /\ outcome' = Pending
  /\ pc' = "call"
  /\ UNCHANGED << self, number_str, number, lines, examples >>

NextCalls == Parse \/ NextCall

SpecCalls == InitCalls /\ [][NextCalls]_vars

(***************************************************************************)
(* SpecBatch: one call of parse_test_case_file on a file of at most        *)
(* MaxLines lines, each one of FileLines.                                  *)
(***************************************************************************)
MaxLines == 4

FileLines ==
  { << >>,
    <<" ">>,
    <<"a", "p", "p", "_", "n", "a", "m", "e", ":", " ", "A">>,
    <<"t", "i", "t", "l", "e", ":", " ", "T">>,
    <<"c", "o", "n", "t", "e", "n", "t", ":", " ", "|">>,
    <<"c", "o", "n", "t", "e", "n", "t", ":", " ", "x">>,
    <<"h", "e", "l", "l", "o">>,
    <<" ", " ", "y", " ">> }

InitBatch ==
  /\ self = __init__
  /\ text_content = << >> /\ app_name = << >> /\ title = << >>
  /\ outcome = Pending /\ history = << >>
  /\ number_str = << >> /\ number = Pending
  /\ lines \in SeqsUpTo(FileLines, MaxLines)
  /\ examples = << >>
  /\ pc = "file"

NextBatch == ParseTestCaseFile

SpecBatch == InitBatch /\ [][NextBatch]_vars

(***************************************************************************)
(* SpecFile: one call of parse_file on a fresh parser, on a file of at     *)
(* most MaxLines lines, each one of IngestLines.                           *)
(***************************************************************************)
IngestLines ==
  { << >>,
    <<"a", "p", "p", "_", "n", "a", "m", "e", ":", " ", "A">>,
    <<"a", "p", "p", "_", "n", "a", "m", "e", ":", "B", " ">>,
    <<"t", "i", "t", "l", "e", ":", " ", "T">>,
    <<"c", "o", "n", "t", "e", "n", "t", ":", " ", "|">>,
    <<"c", "o", "n", "t", "e", "n", "t", ":", " ", "x">>,
    <<"h", "e", "l", "l", "o">>,
    <<" ", " ", "y", " ">> }

InitFile ==
  /\ self = __init__
  /\ text_content = << >> /\ app_name = << >> /\ title = << >>
  /\ outcome = Pending /\ history = << >>
  /\ number_str = << >> /\ number = Pending
  /\ lines \in SeqsUpTo(IngestLines, MaxLines)
  /\ examples = << >>
  /\ pc = "parse_file"

NextFile == ParseFile

SpecFile == InitFile /\ [][NextFile]_vars

(***************************************************************************)
(* SpecPrefixed: one parse call on a fresh parser, on notifications of the *)
(* "Perekaz:" format: the content is any sequence of at most MaxWords of   *)
(* PrefixedWords, the title one of PrefixedTitles.                         *)
(***************************************************************************)
PrefixedWords ==
  { <<"P", "e", "r", "e", "k", "a", "z", ":", " ">>,
    <<"P", "E", "R", "E", "K", "A", "Z", ":", " ", "-", " ">>,
    <<"A", "1", " ">>,
    <<"n", "a", " ", "s", "u", "m", "u", " ">>,
    <<"n", "a", " ", "k", "a", "r", "t", "k", "u", " ">>,
    <<"D", "o", "s", "t", "u", "p", "n", "o", " ">>,
    <<"D", "o", "s", "t", "u", "p", "n", "o", " ", "2", ".", "5", "0", "U", "S", "D", ".", " ">>,
    <<"5", " ", "U", "A", "H">>,
    <<"*", "0", "0", "0", "0", " ">>,
    <<"P", "A", "Y", "P", "A", "L">>,
    <<"E", "X", "A", "M", "P", "L", "E">>,
    <<"A", "B">> }

PrefixedTitles ==
  { << >> }

InitPrefixed ==
  /\ self = __init__
  /\ \E ws \in SeqsUpTo(PrefixedWords, MaxWords) : text_content = Concat(ws)
  /\ app_name = << >>
  /\ title \in PrefixedTitles
  /\ outcome = Pending /\ history = << >>
  /\ number_str = << >> /\ number = Pending
  /\ lines = << >> /\ examples = << >>
  /\ pc = "call"

SpecPrefixed == InitPrefixed /\ [][Next]_vars

(***************************************************************************)
(* SpecBlocking: one parse call on a fresh parser, on notifications of a   *)
(* blocked or rejected operation: the content is any sequence of at most   *)
(* MaxWords of BlockingWords, the title one of BlockingTitles.             *)
(***************************************************************************)
BlockingWords ==
  { <<"r", "e", "j", "e", "c", "t", ":", " ">>,
    <<"S", "u", "m", "a", " ">>,
    <<"D", "o", "s", "t", "u", "p", "n", "o", " ">>,
    <<"b", "a", "l", "a", "n", "c", "e", ":", " ">>,
    <<"a", "v", "a", "i", "l", "a", "b", "l", "e", " ">>,
    <<"5", " ", "U", "A", "H">>,
    <<"1", ",", "5", " ", "u", "a", "h", " ">>,
    <<"2", ".", "5", "0", "U", "S", "D", " ">>,
    <<"c", "a", "r", "d", " ", "*", "0", "0", "0", "0", " ">>,
    <<"M", "E", "R", "C", "H", "A", "N", "T", " ">>,
    <<"\n">> }

BlockingTitles ==
  { << >> }

InitBlocking ==
  /\ self = __init__
  /\ \E ws \in SeqsUpTo(BlockingWords, MaxWords) : text_content = Concat(ws)
  /\ app_name = << >>
  /\ title \in BlockingTitles
  /\ outcome = Pending /\ history = << >>
  /\ number_str = << >> /\ number = Pending
  /\ lines = << >> /\ examples = << >>
  /\ pc = "call"

SpecBlocking == InitBlocking /\ [][Next]_vars

(***************************************************************************)
(* SpecOutgoing: one parse call on a fresh parser, on notifications of a   *)
(* payment and notifications of no known kind: the content is any sequence *)
(* of at most MaxWords of OutgoingWords, the title one of OutgoingTitles.  *)
(***************************************************************************)
OutgoingWords ==
  { <<"p", "a", "y", "m", "e", "n", "t", " ">>,
    <<"5", " ", "U", "A", "H">>,
    <<"1", ",", "5", " ", "u", "a", "h", " ">>,
    <<"a", "v", "a", "i", "l", "a", "b", "l", "e", " ", "2", ".", "5", "0", "U", "S", "D", " ">>,
    <<"c", "a", "r", "d", " ", "*", "0", "0", "0", "0", " ">>,
    <<"*", "1", "2", "3", "4", " ">>,
    <<"h", "e", "l", "l", "o", " ">>,
    <<"-", "7", " ">> }

OutgoingTitles ==
  { << >>,
    <<"-", "1", " ", "0", "0", "0", ".", "0", "0", " ", "U", "A", "H", " ", "cy:d", "cy:o", "cy:s", "cy:t", "cy:u", "cy:p", "cy:n", "cy:o", " ", "5", "0", "5", ".", "0", "1", " ", "U", "A", "H", " ", "*", "0", "0", "0", "0">>,
    <<"-", "1", ",", "5", " ", "u", "a", "h", " ", "*", "0", "0", "0", "0">>,
    <<"P", "U", "M", "B", " ", "-", "5", " ", "U", "A", "H">>,
    <<"C", "a", "r", "d", " ", "1", "2", "3", "4", "-", "5", "6", "7", "8">>,
    <<"CY:O", "cy:p", "cy:l", "cy:a", "cy:t", "cy:a">> }

InitOutgoing ==
  /\ self = __init__
  /\ \E ws \in SeqsUpTo(OutgoingWords, MaxWords) : text_content = Concat(ws)
  /\ app_name = << >>
  /\ title \in OutgoingTitles
  /\ outcome = Pending /\ history = << >>
  /\ number_str = << >> /\ number = Pending
  /\ lines = << >> /\ examples = << >>
  /\ pc = "call"

SpecOutgoing == InitOutgoing /\ [][Next]_vars

(***************************************************************************)
(* SpecLines: one parse call on a fresh parser, on notifications of the    *)
(* line-oriented format of an incoming transfer: the content is any        *)
(* sequence of at most MaxWords of LinesWords, the title one of            *)
(* LinesTitles.                                                            *)
(***************************************************************************)
LinesWords ==
  { <<"CY:N", "cy:a", "cy:d", "cy:h", "cy:o", "cy:d", "cy:zh", "cy:e", "cy:n", "cy:n", "cy:ya", " ">>,
    <<"CY:N", "cy:a", "cy:d", "cy:h", "cy:o", "cy:d", "cy:zh", "cy:e", "cy:n", "cy:n", "cy:ya", ":", " ">>,
    <<"CY:D", "cy:o", "cy:s", "cy:t", "cy:u", "cy:p", "cy:n", "cy:o", ":", " ">>,
    <<"CY:D", "cy:o", "cy:s", "cy:t", "cy:u", "cy:p", "cy:n", "cy:o", ":", " ", "5", " ", "U", "A", "H", "\n">>,
    <<"5", " ", "U", "A", "H">>,
    <<"2", "0", "0", ".", "0", "U", "A", "H">>,
    <<"\n">>,
    <<"M", "E", "R", "C", "H", "A", "N", "T", " ", "L", "T", "D">>,
    <<"CY:K", "cy:a", "cy:r", "cy:t", "cy:k", "cy:a", ":", " ", "*", "0", "0", "0", "0">>,
    <<"0", "1", ".", "0", "2", ".", "2", "0", "2", "4">>,
    <<"A", "B">> }

LinesTitles ==
  { << >>,
    <<"CY:N", "cy:a", "cy:d", "cy:h", "cy:o", "cy:d", "cy:zh", "cy:e", "cy:n", "cy:n", "cy:ya">> }

InitLines ==
  /\ self = __init__
  /\ \E ws \in SeqsUpTo(LinesWords, MaxWords) : text_content = Concat(ws)
  /\ app_name = << >>
  /\ title \in LinesTitles
  /\ outcome = Pending /\ history = << >>
  /\ number_str = << >> /\ number = Pending
  /\ lines = << >> /\ examples = << >>
  /\ pc = "call"

SpecLines == InitLines /\ [][Next]_vars

----------------------------------------------------------------------------
(* The claims *)

\* the call has returned a record
Returned == pc = "done" /\ outcome.kind = "return"

\* the call has raised
Raised == pc = "done" /\ outcome.kind = "raise"

OperationTypes == {"balance_info", "in", "reject", "out", "generic", "unknown"}

\* C1: every record parse returns has operation_type set to one of the
\* enumerated values, the record of the generic fallback included.
C1_OperationTypeSet ==
  Returned => \E t \in OperationTypes : outcome.result.operation_type = Some(t)

\* C2: in every record parse returns, operation_amount is present iff
\* operation_currency is, and bank_account_balance iff bank_account_currency.
C2_Pairing ==
  Returned =>
    /\ (outcome.result.operation_amount = None) <=> (outcome.result.operation_currency = None)
    /\ (outcome.result.bank_account_balance = None) <=> (outcome.result.bank_account_currency = None)

C2_Witness ==
  /\ Returned
  /\ outcome.result.operation_amount # None
  /\ outcome.result.bank_account_balance # None

\* C3: the record is that of the first predicate that holds, in the order
\* balance_info, incoming, blocking, outgoing; with none, the generic routine's.
C3_FirstMatchWins ==
  Returned =>
    LET type == outcome.result.operation_type
    IN  IF _is_balance_info_only(text_content, title) THEN type = Some("balance_info")
        ELSE IF _is_incoming(text_content, title) THEN type = Some("in")
        ELSE IF _is_blocking(text_content) THEN type = Some("reject")
        ELSE IF _is_outgoing(text_content, title) THEN type = Some("out")
        ELSE type \notin {Some("balance_info"), Some("in"), Some("reject"), Some("out")}

C3_Witness ==
  /\ Returned
  /\ ~_is_balance_info_only(text_content, title)
  /\ _is_incoming(text_content, title)
  /\ _is_blocking(text_content)
  /\ _is_outgoing(text_content, title)
  /\ outcome.result.operation_type = Some("in")

\* the transfer terms of operation_keywords: переказ, perekaz, transfer
TransferKeywords == SubSeq(operation_keywords, 1, 3)

\* C4: a content holding a balance marker and a transfer keyword is never
\* classified balance_info.
C4_Exclusion ==
  Returned /\ Contains(LowerStr(text_content), KwBalans)
           /\ ContainsAny(LowerStr(text_content), TransferKeywords)
    => outcome.result.operation_type # Some("balance_info")

\* the calls made so far on the parser and finished
FinishedCalls ==
  history \o (IF pc = "done" /\ outcome.kind # "pending"
              THEN << [text_content |-> text_content, app_name |-> app_name,
                       title |-> title, outcome |-> outcome] >>
              ELSE << >>)

\* C5: two calls with the same content and the same title do the same,
\* whatever their app_name and whatever calls were made in between; the
\* parser is as it was constructed.
C5_Deterministic ==
  /\ self = __init__
  /\ \A i, j \in DOMAIN FinishedCalls :
        /\ FinishedCalls[i].text_content = FinishedCalls[j].text_content
        /\ FinishedCalls[i].title = FinishedCalls[j].title
        => /\ FinishedCalls[i].outcome.kind = FinishedCalls[j].outcome.kind
           /\ FinishedCalls[i].outcome = FinishedCalls[j].outcome

C5_Witness ==
  /\ Returned
  /\ Len(history) >= 1
  /\ history[1].text_content = text_content
  /\ history[1].title = title
  /\ history[1].app_name # app_name
  /\ outcome.result.operation_amount # None

\* the token without its spaces and the whitespace around it
Bare(token) == Strip(Remove(token, " "))

\* a decimal literal once ',' is read as '.': digits with at most one
\* separator, one digit at least
DecimalLiteral(t) ==
  /\ \A i \in 1..Len(t) : t[i] \in Digits \cup {",", "."}
  /\ Cardinality({i \in 1..Len(t) : t[i] \in {",", "."}}) <= 1
  /\ \E i \in 1..Len(t) : t[i] \in Digits

\* the value of such a literal: its digits, the ones after the separator
\* being the fraction
LiteralValue(t) ==
  LET seps == {i \in 1..Len(t) : t[i] \in {",", "."}}
      fraction == IF seps = {} THEN 0 ELSE Len(t) - Least(seps)
  IN  Decimal(DigitsValue(SelectSeq(t, LAMBDA c : c \in Digits)), fraction)

\* C6: the normalizer returns the decimal value of the token with its spaces
\* deleted and every ',' read as '.', and fails on a token that is no
\* decimal literal then; the three documented values, and "1,250.50" fails.
C6_Normalizer ==
  pc = "done" /\ number.kind # "pending" =>
    /\ IF DecimalLiteral(Bare(number_str))
       THEN number.kind = "return" /\ number.value = LiteralValue(Bare(number_str))
       ELSE number.kind = "raise"
    /\ number_str = Token_1_250_50 => number.kind = "return" /\ number.value = Decimal(125050, 2)
    /\ number_str = Token_3_500_00 => number.kind = "return" /\ number.value = Decimal(3500, 0)
    /\ number_str = Token_1250_50 => number.kind = "return" /\ number.value = Decimal(125050, 2)
    /\ number_str = Token_1_250_50_comma => number.kind = "raise"

C6_Witness ==
  /\ pc = "done"
  /\ number_str = Token_3_500_00
  /\ number.kind = "return"
  /\ number.value = [mant |-> 3500, scale |-> 0]

\* C7: a numeric token that cannot be parsed aborts its field only: parse
\* still returns a record.
C7_FailureKeepsRecord == ~Raised

\* digits, then whitespace that is not all spaces, then digits: a number the
\* amount pattern matches across and the normalizer cannot read
BrokenNumber(s) ==
  \E i, j \in 1..Len(s) :
     /\ i + 1 < j
     /\ s[i] \in Digits /\ s[j] \in Digits
     /\ \A k \in (i + 1)..(j - 1) : s[k] \in Whitespace
     /\ \E k \in (i + 1)..(j - 1) : s[k] # " "

\* no currency code in the text, so no amount-currency pair
NoCurrency(s) ==
  \A i \in DOMAIN currency_pattern : ~Contains(LowerStr(s), LowerStr(currency_pattern[i]))

\* C8: parse raises only when a matched numeric token fails normalization;
\* with no amount-currency pair at all it returns a record, amounts absent.
C8_RaisesOnlyOnNumber ==
  pc = "done" /\ outcome.kind # "pending" =>
    /\ Raised => BrokenNumber(text_content) \/ BrokenNumber(title)
    /\ NoCurrency(text_content) /\ NoCurrency(title) =>
         /\ outcome.kind = "return"
         /\ outcome.result.operation_amount = None
         /\ outcome.result.operation_currency = None
         /\ outcome.result.bank_account_balance = None
         /\ outcome.result.bank_account_currency = None

C8_Witness ==
  /\ Returned
  /\ NoCurrency(text_content) /\ NoCurrency(title)
  /\ text_content # << >>
  /\ outcome.result.operation_type = Some("reject")
  /\ outcome.result.bank_account_details = None
  /\ outcome.result.counterparty_details = None

RecordKeys ==
  {"bank_account_balance", "bank_account_currency", "bank_account_details",
   "operation_amount", "operation_currency", "operation_type", "counterparty_details"}

\* C9: a record has the seven keys, and bank_account_details and
\* counterparty_details are each absent or a non-empty string.
C9_NoEmptyString ==
  Returned =>
    /\ DOMAIN outcome.result = RecordKeys
    /\ outcome.result.bank_account_details # Some(<< >>)
    /\ outcome.result.counterparty_details # Some(<< >>)

\* C10: operation_currency and bank_account_currency are each absent or one
\* of the codes UAH, USD, EUR, GBP, PLN.
C10_CurrencyCode ==
  Returned =>
    \A c \in {outcome.result.operation_currency, outcome.result.bank_account_currency} :
       c = None \/ \E i \in DOMAIN currency_pattern : c = Some(currency_pattern[i])

\* the fields a match gives: the normalized amount, the currency, the token
AmountOf(s, m) == IF m.ok THEN Some(_normalize_number(Group1(s, m)).value) ELSE None

CurrencyOf(s, m) == IF m.ok THEN Some(Group2(s, m)) ELSE None

TokenOf(s, m) == IF m.ok THEN Some(Group1(s, m)) ELSE None

\* the pair after the marker "баланс:" in the content
BalansPair == SearchWordAmountCur(self, text_content, << KwBalansColon >>, 0)

\* C11: a balance_info record has operation_amount, operation_currency and
\* counterparty_details absent and its balance is the pair after "баланс:";
\* an out record has counterparty_details absent.
C11_ForcedAbsent ==
  Returned =>
    /\ outcome.result.operation_type = Some("balance_info") =>
         /\ outcome.result.operation_amount = None
         /\ outcome.result.operation_currency = None
         /\ outcome.result.counterparty_details = None
         /\ outcome.result.bank_account_balance = AmountOf(text_content, BalansPair)
         /\ outcome.result.bank_account_currency = CurrencyOf(text_content, BalansPair)
    /\ outcome.result.operation_type = Some("out") =>
         outcome.result.counterparty_details = None

C11_Witness ==
  /\ Returned
  /\ outcome.result.operation_type = Some("balance_info")
  /\ outcome.result.bank_account_balance # None
  /\ Len(FindAllAmountCur(self, text_content, 1)) >= 2
  /\ outcome.result.operation_amount = None

\* the content is of the "Perekaz:" format and the call classified it incoming
PrefixedIncoming ==
  /\ Returned
  /\ outcome.result.operation_type = Some("in")
  /\ Contains(LowerStr(text_content), KwPerekazColon)

\* the alphanumeric token right after "perekaz:", and the places of the
\* content where a text follows "dostupno <amount><currency>. "
PerekazToken == SearchWordRun(text_content, << KwPerekazColon >>, 0, FALSE, AlnumChars)

AfterDostupnoDot ==
  {k \in DOMAIN text_content :
     DostupnoDotAt(self, text_content, LowerStr(text_content), k).ok}

\* cp is at the head of the text that follows one of these places
FollowsDostupno(cp) ==
  \E k \in AfterDostupnoDot :
    \E j \in DostupnoDotAt(self, text_content, LowerStr(text_content), k).end
               .. (Len(text_content) + 1) :
      /\ \A i \in DostupnoDotAt(self, text_content, LowerStr(text_content), k).end
                    .. (j - 1) : text_content[i] \in Whitespace
      /\ StartsAt(text_content, j, cp)

Blocked == Returned /\ outcome.result.operation_type = Some("reject")

\* the pair after one of suma / сума / amount / сумма, all pairs of the
\* content, the pair after dostupno / доступно / available, the pair after
\* "баланс:" / "balance:"
SumaPair == SearchWordAmountCur(self, text_content, SumaWords, 1)

ContentPairs == FindAllAmountCur(self, text_content, 1)

AvailablePair == SearchWordAmountCur(self, text_content, AvailableWords, 1)

BalanceColonPair == SearchWordAmountCur(self, text_content, BalanceColonWords, 0)

\* C13: of a blocked operation the amount is the pair after an amount
\* keyword when there is one; otherwise the first pair of the content if and
\* only if the content holds at least two pairs.  The balance is the pair
\* after dostupno / доступно / available, and only when there is none the
\* pair after "баланс:" / "balance:".
C13_Blocking ==
  Blocked =>
    /\ SumaPair.ok =>
         /\ outcome.result.operation_amount = AmountOf(text_content, SumaPair)
         /\ outcome.result.operation_currency = CurrencyOf(text_content, SumaPair)
    /\ (~SumaPair.ok /\ Len(ContentPairs) >= 2) =>
         /\ outcome.result.operation_amount = AmountOf(text_content, ContentPairs[1])
         /\ outcome.result.operation_currency = CurrencyOf(text_content, ContentPairs[1])
    /\ (~SumaPair.ok /\ Len(ContentPairs) < 2) =>
         /\ outcome.result.operation_amount = None
         /\ outcome.result.operation_currency = None
    /\ AvailablePair.ok =>
         /\ outcome.result.bank_account_balance = AmountOf(text_content, AvailablePair)
         /\ outcome.result.bank_account_currency = CurrencyOf(text_content, AvailablePair)
    /\ ~AvailablePair.ok =>
         /\ outcome.result.bank_account_balance = AmountOf(text_content, BalanceColonPair)
         /\ outcome.result.bank_account_currency = CurrencyOf(text_content, BalanceColonPair)

\* exactly one pair and no amount keyword: the amount is absent, and the pair
\* is the balance
C13_Witness ==
  /\ Blocked
  /\ ~SumaPair.ok
  /\ Len(ContentPairs) = 1
  /\ outcome.result.operation_amount = None
  /\ outcome.result.bank_account_balance # None

\* the call classified the notification an outgoing operation
Outgoing == Returned /\ outcome.result.operation_type = Some("out")

\* in the title: the pair after a minus sign, the pair after доступно /
\* available, the run of digits and asterisks at the end
TitleMinusPair == SearchWordAmountCur(self, title, << << "-" >> >>, 0)

TitleAvailablePair == SearchWordAmountCur(self, title, TitleAvailableWords, 1)

TitleCard == SearchCardAtEnd(title)

\* in the content: the pair after a balance word, the card after a card
\* word or else the first run of four digits or asterisks
ContentBalancePair == SearchWordAmountCur(self, text_content, OutBalanceWords, 1)

ContentCard ==
  IF SearchWordRun(text_content, OutCardWords, 0, TRUE, CardChars).ok
  THEN SearchWordRun(text_content, OutCardWords, 0, TRUE, CardChars)
  ELSE SearchCardRun(text_content, 1)

\* C14: of an outgoing operation whose title carries a minus sign followed by
\* digits, the amount, the balance and the card are read from the title
\* alone and the amount is not negative; of one whose title carries none,
\* the amount is the first pair of the content and the balance and the card
\* are read from the content.
C14_Outgoing ==
  Outgoing =>
    /\ MinusDigits(title) =>
         /\ outcome.result.operation_amount = AmountOf(title, TitleMinusPair)
         /\ outcome.result.operation_currency = CurrencyOf(title, TitleMinusPair)
         /\ outcome.result.bank_account_balance = AmountOf(title, TitleAvailablePair)
         /\ outcome.result.bank_account_currency = CurrencyOf(title, TitleAvailablePair)
         /\ outcome.result.bank_account_details = TokenOf(title, TitleCard)
         /\ outcome.result.operation_amount # None =>
              outcome.result.operation_amount[1].mant >= 0
    /\ ~MinusDigits(title) =>
         /\ outcome.result.operation_amount
              = IF ContentPairs = << >> THEN None ELSE AmountOf(text_content, ContentPairs[1])
         /\ outcome.result.operation_currency
              = IF ContentPairs = << >> THEN None ELSE CurrencyOf(text_content, ContentPairs[1])
         /\ outcome.result.bank_account_balance = AmountOf(text_content, ContentBalancePair)
         /\ outcome.result.bank_account_currency = CurrencyOf(text_content, ContentBalancePair)
         /\ outcome.result.bank_account_details = TokenOf(text_content, ContentCard)

\* the title carries "-<amount><currency>" and the content another pair, a
\* balance and a card of its own: the record has the title's
C14_Witness ==
  /\ Outgoing
  /\ TitleMinusPair.ok
  /\ ContentPairs # << >>
  /\ ContentBalancePair.ok
  /\ ContentCard.ok
  /\ AmountOf(text_content, ContentPairs[1]) # AmountOf(title, TitleMinusPair)
  /\ outcome.result.operation_amount = AmountOf(title, TitleMinusPair)
  /\ outcome.result.bank_account_details = TokenOf(title, TitleCard)
  /\ outcome.result.bank_account_details # TokenOf(text_content, ContentCard)

\* the call classified the notification incoming and its content is not of
\* the "Perekaz:" format
PlainIncoming ==
  /\ Returned
  /\ outcome.result.operation_type = Some("in")
  /\ ~Contains(LowerStr(text_content), KwPerekazColon)

\* one of "надходження", "доступно:", "надходження:" is in the content or in
\* the title
LineMarkerAnywhere ==
  \E s \in {LowerStr(text_content), LowerStr(title)} :
    \/ Contains(s, KwNadkhodzhennia)
    \/ Contains(s, KwDostupnoColon)
    \/ Contains(s, KwNadkhodzhenniaColon)

\* the pairs of the content whose 20 preceding characters do not hold
\* "доступно"
FreePairs ==
  {i \in DOMAIN ContentPairs :
     ~Contains(ContextBefore(text_content, ContentPairs[i]), KwDostupnoCyr)}

\* C15: an incoming notification not of the "Perekaz:" format whose content
\* or title holds "надходження", "доступно:" or "надходження:" gets the
\* line-oriented extraction: a pair of its content that is not a balance is
\* its operation amount.
C15_LineSelection ==
  (PlainIncoming /\ LineMarkerAnywhere /\ FreePairs # {}) =>
    outcome.result.operation_amount # None

\* the condition under which _parse_incoming takes the line-oriented branch
LineFormat ==
  /\ PlainIncoming
  /\ \/ Contains(LowerStr(title), KwNadkhodzhennia)
     \/ Contains(LowerStr(text_content), KwDostupnoColon)
     \/ Contains(LowerStr(text_content), KwNadkhodzhenniaColon)

\* the pair after "надходження:", the pair at the very start of the content,
\* the pair after "доступно:"
MarkerPair == SearchWordAmountCur(self, text_content, << KwNadkhodzhenniaColon >>, 0)

StartPair == AmountCurAt(self, text_content, 1, Whitespace)

DostupnoColonPair == SearchWordAmountCur(self, text_content, << KwDostupnoColon >>, 0)

\* the source of the operation amount: the first of the three that exists
LineAmountPair ==
  IF MarkerPair.ok THEN MarkerPair
  ELSE IF StartPair.ok THEN StartPair
  ELSE IF FreePairs # {} THEN ContentPairs[Least(FreePairs)]
  ELSE NoMatch

\* C16: in the line-oriented format the operation amount is the pair after
\* "надходження:"; else the pair at the very start of the content; else the
\* first pair whose 20 preceding characters do not hold "доступно"; the
\* balance is the pair after "доступно:" and nothing else.
C16_LineAmount ==
  LineFormat =>
    /\ outcome.result.operation_amount = AmountOf(text_content, LineAmountPair)
    /\ outcome.result.operation_currency = CurrencyOf(text_content, LineAmountPair)
    /\ outcome.result.bank_account_balance = AmountOf(text_content, DostupnoColonPair)
    /\ outcome.result.bank_account_currency = CurrencyOf(text_content, DostupnoColonPair)

\* the third source is used, and the pair it passes over is the balance
C16_Witness ==
  /\ LineFormat
  /\ ~MarkerPair.ok /\ ~StartPair.ok
  /\ FreePairs # {} /\ 1 \notin FreePairs
  /\ outcome.result.operation_amount = AmountOf(text_content, ContentPairs[Least(FreePairs)])
  /\ outcome.result.bank_account_balance = AmountOf(text_content, ContentPairs[1])
  /\ outcome.result.operation_amount # outcome.result.bank_account_balance

\* the lines of the content, and those that begin with a pair, the currency
\* attached to the amount or separated from it by spaces
ContentLines == SplitLines(text_content)

PairLines ==
  {i \in DOMAIN ContentLines : AmountCurAt(self, Strip(ContentLines[i]), 1, Whitespace).ok}

\* a line that can be the counterparty: not empty, longer than 2 characters,
\* not a date, not a "картка:" or "доступно:" line, not a bare decimal
CounterpartyLine(line) ==
  /\ Len(line) > 2
  /\ ~DateLine(line)
  /\ ~Contains(LowerStr(line), KwKartkaColon)
  /\ ~Contains(LowerStr(line), KwDostupnoColon)
  /\ ~DecimalLine(line)

\* the first such line among the three after the first line of PairLines
ScannedCounterparty ==
  IF PairLines = {} THEN None
  ELSE LET i == Least(PairLines)
           last == IF i + 3 < Len(ContentLines) THEN i + 3 ELSE Len(ContentLines)
           found == {j \in (i + 1)..last : CounterpartyLine(Strip(ContentLines[j]))}
       IN  IF found = {} THEN None ELSE Some(Strip(ContentLines[Least(found)]))

\* C17: in the line-oriented format the counterparty is the first line, of
\* the three that follow the first content line beginning with a pair
\* (currency attached or space-separated), that is non-empty, longer than 2
\* characters and neither a date, a "картка:" line, a "доступно:" line nor a
\* bare decimal; it is absent when there is no such line.
C17_LineCounterparty ==
  LineFormat => outcome.result.counterparty_details = ScannedCounterparty

\* the call has returned and none of the three earlier predicates holds of
\* its input
NoEarlierKind ==
  /\ Returned
  /\ ~_is_balance_info_only(text_content, title)
  /\ ~_is_incoming(text_content, title)
  /\ ~_is_blocking(text_content)

\* the title holds, from its i-th character, a minus sign, spaces or none,
\* and a digit
MinusNumberAt(i) ==
  /\ i \in DOMAIN title
  /\ title[i] = "-"
  /\ \E j \in (i + 1)..Len(title) :
       /\ title[j] \in Digits
       /\ \A k \in (i + 1)..(j - 1) : title[k] \in Whitespace

\* the content or the title holds one of the outgoing marker phrases
OutgoingMarker ==
  \E k \in DOMAIN outgoing_keywords :
    \/ Contains(LowerStr(text_content), outgoing_keywords[k])
    \/ Contains(LowerStr(title), outgoing_keywords[k])

\* C18 as stated: an input that none of the balance_info, incoming and
\* blocking predicates holds of is classified out if and only if its title
\* begins with a minus sign followed by digits or its content or title
\* holds an outgoing marker phrase; otherwise it goes to the generic
\* fallback.
C18_LeadingMinus ==
  NoEarlierKind =>
    /\ outcome.result.operation_type = Some("out") <=> (MinusNumberAt(1) \/ OutgoingMarker)
    /\ outcome.result.operation_type # Some("out") => outcome.result.operation_type = None

\* C18, amended: such an input is classified out if and only if its title
\* holds, anywhere, a minus sign followed by digits or its content or title
\* holds an outgoing marker phrase; otherwise it goes to the generic
\* fallback, which leaves the operation type absent.
C18_MinusAnywhere ==
  NoEarlierKind =>
    /\ outcome.result.operation_type = Some("out")
         <=> ((\E i \in DOMAIN title : MinusNumberAt(i)) \/ OutgoingMarker)
    /\ outcome.result.operation_type # Some("out") => outcome.result.operation_type = None

\* an out record owed to a minus sign that is not at the start of the title
C18_Witness ==
  /\ NoEarlierKind
  /\ outcome.result.operation_type = Some("out")
  /\ ~OutgoingMarker
  /\ ~MinusNumberAt(1)
  /\ \E i \in DOMAIN title : MinusNumberAt(i)

\* the call went to the generic fallback: the only routine that leaves the
\* operation type absent
Generic == Returned /\ outcome.result.operation_type = None

\* the places of the content where a run of four or more digits or
\* asterisks begins, and the first such run
CardRunStarts ==
  {p \in DOMAIN text_content :
     /\ text_content[p] \in CardChars
     /\ p = 1 \/ text_content[p - 1] \notin CardChars
     /\ SkipWhile(text_content, p, CardChars) - p >= 4}

FirstCardRun ==
  IF CardRunStarts = {} THEN None
  ELSE Some(SubSeq(text_content, Least(CardRunStarts),
                   SkipWhile(text_content, Least(CardRunStarts), CardChars) - 1))

\* C19: the generic fallback takes the first pair of the content as the
\* operation amount, the last pair as the balance if and only if the content
\* holds more than one pair, the first run of four or more digits or
\* asterisks as the card, and leaves the counterparty absent.
C19_Generic ==
  Generic =>
    /\ outcome.result.operation_amount
         = IF ContentPairs = << >> THEN None ELSE AmountOf(text_content, ContentPairs[1])
    /\ outcome.result.operation_currency
         = IF ContentPairs = << >> THEN None ELSE CurrencyOf(text_content, ContentPairs[1])
    /\ outcome.result.bank_account_balance
         = IF Len(ContentPairs) > 1
           THEN AmountOf(text_content, ContentPairs[Len(ContentPairs)]) ELSE None
    /\ outcome.result.bank_account_currency
         = IF Len(ContentPairs) > 1
           THEN CurrencyOf(text_content, ContentPairs[Len(ContentPairs)]) ELSE None
    /\ outcome.result.bank_account_details = FirstCardRun
    /\ outcome.result.counterparty_details = None

\* one pair and a card: the amount and the card are there, the balance is not
C19_Witness ==
  /\ Generic
  /\ Len(ContentPairs) = 1
  /\ outcome.result.operation_amount # None
  /\ outcome.result.bank_account_balance = None
  /\ outcome.result.bank_account_details # None

\* a line is blank when nothing is left of it once stripped
Blank(line) == Strip(line) = << >>

\* the places of the file where a maximal run of non-blank lines begins, the
\* place where the run that begins at a ends, and the run itself
RunStarts ==
  {a \in DOMAIN lines : ~Blank(lines[a]) /\ (a = 1 \/ Blank(lines[a - 1]))}

RunEnd(a) ==
  CHOOSE b \in a..Len(lines) :
    /\ \A k \in a..b : ~Blank(lines[k])
    /\ b = Len(lines) \/ Blank(lines[b + 1])

Run(a) == SubSeq(lines, a, RunEnd(a))

\* the place where the k-th run begins
NthStart(k) == CHOOSE a \in RunStarts : Cardinality({x \in RunStarts : x < a}) = k - 1

\* C20: parse_test_case_file returns, in file order, exactly one example for
\* each maximal run of non-blank lines of the file, and the example of a run
\* is what the lines of that run alone give.
C20_OnePerRun ==
  pc = "done" =>
    /\ Len(examples) = Cardinality(RunStarts)
    /\ \A k \in 1..Cardinality(RunStarts) :
         parse_test_case_file(Run(NthStart(k))) = << examples[k] >>

\* the i-th line of the file, stripped, and whether it begins with a prefix
StrippedLine(i) == Strip(lines[i])

HasPrefix(i, key) == StartsAt(StrippedLine(i), 1, key)

AnyPrefix(i) == \E key \in {KeyAppName, KeyTitle, KeyContent} : HasPrefix(i, key)

\* the greatest element of a non-empty set of numbers
Greatest(S) == CHOOSE x \in S : \A y \in S : y <= x

\* the stripped text after the last line with the prefix, empty if there is
\* no such line
TextAfterLast(key) ==
  IF \A i \in DOMAIN lines : ~HasPrefix(i, key) THEN << >>
  ELSE AfterKey(StrippedLine(Greatest({i \in DOMAIN lines : HasPrefix(i, key)})), key)

\* the last line with a prefix before the i-th, 0 if there is none
LastPrefixBefore(i) ==
  IF \A j \in 1..(i - 1) : ~AnyPrefix(j) THEN 0
  ELSE Greatest({j \in 1..(i - 1) : AnyPrefix(j)})

\* the i-th line is inside a content section: the last prefix before it is
\* "content:"
InContentSection(i) ==
  LastPrefixBefore(i) # 0 /\ HasPrefix(LastPrefixBefore(i), KeyContent)

\* the i-th line gives a line of the content: a "content:" line whose text is
\* not the marker "|", a line inside a content section, or a line before any
\* prefix that is not a blank line at the head of the file
GivesContent(i) ==
  \/ HasPrefix(i, KeyContent) /\ AfterKey(StrippedLine(i), KeyContent) # << "|" >>
  \/ ~AnyPrefix(i) /\ InContentSection(i)
  \/ /\ ~AnyPrefix(i)
     /\ LastPrefixBefore(i) = 0
     /\ \E j \in 1..i : StrippedLine(j) # << >>

ContentGiven(i) ==
  IF HasPrefix(i, KeyContent) THEN AfterKey(StrippedLine(i), KeyContent)
  ELSE StrippedLine(i)

\* the content the file holds: these lines, in order, joined by newlines
SectionContent ==
  LET from == SelectSeq([i \in 1..Len(lines) |-> i], LAMBDA i : GivesContent(i))
  IN  JoinLines([k \in 1..Len(from) |-> ContentGiven(from[k])])

\* C21: once parse_file has consumed the lines of a file, app_name and title
\* are the stripped text after the last "app_name:" / "title:" prefix, and
\* the content is the newline-join of the lines of the content section: the
\* text after "content:" unless it is "|", and the stripped lines after it up
\* to the next "app_name:" or "title:" line, blank lines kept; a line without
\* prefix outside a content section is content only if no prefix came before.
C21_FileIngestion ==
  (pc = "done" /\ lines # << >>) =>
    /\ app_name = TextAfterLast(KeyAppName)
    /\ title = TextAfterLast(KeyTitle)
    /\ text_content = SectionContent

\* C22: every number the amount pattern matches in the content is one the
\* normalizer accepts, and so the parse call returns a record, also for a
\* content in which a line ending in digits is followed by a line that
\* begins with a pair.
C22_ParseTotal ==
  pc = "done" =>
    /\ \A i \in DOMAIN ContentPairs :
         _normalize_number(Group1(text_content, ContentPairs[i])).ok
    /\ outcome.kind = "return"

====
